---- MODULE Spec2Model ----
(***************************************************************************)
(* mei_tools: the rewrite passes and the batch driver of                   *)
(* Music_Feature_Processor (mei_music_feature_processor.py) and the        *)
(* header reconciliation of MEI_Metadata_Updater.apply_metadata            *)
(* (mei_metadata_processor.py); the batch drivers of the metadata          *)
(* processors (src/mei_metadata_processor.py, mei_definition_processor.py) *)
(* and two workers that run process_files side by side.                    *)
(*                                                                         *)
(* A string is a sequence of one-character strings, so that split, strip,  *)
(* replace, int() and str() are computed and not assumed; a text the       *)
(* program has as a literal (a URL, the licence text) is one element of    *)
(* the sequence.  An element is a                                          *)
(* record [name, ns, attrs, text, kids]; in a BeautifulSoup tree a text    *)
(* run is a child named "#text" whose text field is the run, in an lxml    *)
(* tree the text field of an element is its .text.                         *)
(***************************************************************************)
EXTENDS Integers, Sequences, FiniteSets, TLC

VARIABLES
    \* one pass applied to one tree (Music_Feature_Processor._<pass>)
    pass, draws, input, out1, out2, pcP,
    \* the attributes of the processor object that the passes probe
    flags,
    \* the batch driver (Music_Feature_Processor.process_files)
    files, modules, idx, modIdx, soup, processed_soup, loaded, applied, warned,
    results, saved, pcD,
    \* the header reconciliation (MEI_Metadata_Updater.apply_metadata)
    htree, record, res1, res2, outputs, pcR,
    \* the batch of a metadata processor (process_files)
    processor, md_files, metadata_dict_list, md_idx, md_soup, md_results, md_saved, pcM,
    \* two workers, each running process_files on a document of its own
    shared, docs, wmodules, heap, self_soup, processed, wIdx, wpc, wresults, wsaved,
    touched, steps

varsP == <<pass, draws, input, out1, out2, pcP>>
varsD == <<files, modules, idx, modIdx, soup, processed_soup, loaded, applied, warned,
           results, saved, pcD>>
varsR == <<htree, record, res1, res2, outputs, pcR>>
varsM == <<processor, md_files, metadata_dict_list, md_idx, md_soup, md_results, md_saved,
           pcM>>
varsW == <<shared, docs, wmodules, heap, self_soup, processed, wIdx, wpc, wresults,
           wsaved, touched, steps>>
vars == <<flags, varsP, varsD, varsR, varsM, varsW>>

-----------------------------------------------------------------------------
(* Strings *)

RECURSIVE Flatten(_)
Flatten(ss) == IF Len(ss) = 0 THEN <<>> ELSE Head(ss) \o Flatten(Tail(ss))

Drop(s, k) == SubSeq(s, k + 1, Len(s))

StartsWith(s, pat) == Len(pat) <= Len(s) /\ SubSeq(s, 1, Len(pat)) = pat

\* str.strip(): the whitespace of the model's alphabet is the space
RECURSIVE LStrip(_)
LStrip(s) == IF Len(s) > 0 /\ Head(s) = " " THEN LStrip(Tail(s)) ELSE s

RECURSIVE RStrip(_)
RStrip(s) ==
    IF Len(s) > 0 /\ s[Len(s)] = " " THEN RStrip(SubSeq(s, 1, Len(s) - 1)) ELSE s

Strip(s) == RStrip(LStrip(s))

\* str.split(sep): the pieces between the non-overlapping occurrences of sep,
\* found left to right; a string without sep is its own single piece
RECURSIVE SplitFrom(_, _, _)
SplitFrom(s, sep, cur) ==
    IF Len(s) = 0 THEN <<cur>>
    ELSE IF StartsWith(s, sep) THEN <<cur>> \o SplitFrom(Drop(s, Len(sep)), sep, <<>>)
    ELSE SplitFrom(Tail(s), sep, Append(cur, Head(s)))

Split(s, sep) == SplitFrom(s, sep, <<>>)

\* str.replace(pat, rep)
RECURSIVE Replace(_, _, _)
Replace(s, pat, rep) ==
    IF Len(s) = 0 THEN <<>>
    ELSE IF StartsWith(s, pat) THEN rep \o Replace(Drop(s, Len(pat)), pat, rep)
    ELSE <<Head(s)>> \o Replace(Tail(s), pat, rep)

Digits == <<"0", "1", "2", "3", "4", "5", "6", "7", "8", "9">>

IsDigit(c) == \E d \in 1..Len(Digits) : Digits[d] = c

DigitVal(c) == (CHOOSE d \in 1..Len(Digits) : Digits[d] = c) - 1

IsDigits(s) == Len(s) > 0 /\ \A i \in 1..Len(s) : IsDigit(s[i])

\* what int(s) accepts: an optional sign and decimal digits, blanks around it
IsIntLiteral(s) ==
    LET u == Strip(s)
    IN  IF Len(u) > 0 /\ Head(u) \in {"-", "+"} THEN IsDigits(Tail(u)) ELSE IsDigits(u)

RECURSIVE ParseNat(_, _)
ParseNat(s, acc) ==
    IF Len(s) = 0 THEN acc ELSE ParseNat(Tail(s), 10 * acc + DigitVal(Head(s)))

ParseInt(s) ==
    LET u == Strip(s)
    IN  IF Head(u) = "-" THEN 0 - ParseNat(Tail(u), 0)
        ELSE IF Head(u) = "+" THEN ParseNat(Tail(u), 0)
        ELSE ParseNat(u, 0)

RECURSIVE FormatNat(_)
FormatNat(k) ==
    IF k < 10 THEN <<Digits[k + 1]>> ELSE Append(FormatNat(k \div 10), Digits[(k % 10) + 1])

\* str(k)
FormatInt(k) == IF k < 0 THEN <<"-">> \o FormatNat(0 - k) ELSE FormatNat(k)

\* str.upper() on the letters the model uses
Upper(c) ==
    CASE c = "c" -> "C"
      [] c = "a" -> "A"
      [] c = "b" -> "B"
      [] c = "t" -> "T"
      [] OTHER -> c

-----------------------------------------------------------------------------
(* Trees *)

NoAttrs == [k \in {} |-> <<>>]

Elem(name, attrs, kids) ==
    [name |-> name, ns |-> "", attrs |-> attrs, text |-> <<>>, kids |-> kids]

Txt(s) == [name |-> "#text", ns |-> "", attrs |-> NoAttrs, text |-> s, kids |-> <<>>]

\* the value of a call that raised: there is no tree
NoTree == [name |-> "#none", ns |-> "", attrs |-> NoAttrs, text |-> <<>>, kids |-> <<>>]

Ok(t) == [ok |-> TRUE, err |-> "", tree |-> t]
Raise(e) == [ok |-> FALSE, err |-> e, tree |-> NoTree]

IsTag(n) == n.name \notin {"#text", "#none"}

HasAttr(n, k) == k \in DOMAIN n.attrs

\* tag[k] = v
SetAttr(n, k, v) == [n EXCEPT !.attrs = (k :> v) @@ n.attrs]

\* del tag[k] for each k of ks: a missing attribute is not an error
DelAttrs(n, ks) == [n EXCEPT !.attrs = [a \in (DOMAIN n.attrs) \ ks |-> n.attrs[a]]]

\* every element and text run below n, in document order
RECURSIVE Descendants(_)
Descendants(n) ==
    Flatten([i \in 1..Len(n.kids) |-> <<n.kids[i]>> \o Descendants(n.kids[i])])

\* tag.find_all(name): the descendants called name, in document order
FindAll(n, name) == SelectSeq(Descendants(n), LAMBDA d : d.name = name)

\* soup.find_all(name): the root element is below the soup object
SoupFindAll(t, name) == SelectSeq(<<t>> \o Descendants(t), LAMBDA d : d.name = name)

\* tag.get_text() / tag.text: the text runs below n, concatenated
GetText(n) == Flatten([i \in 1..Len(Descendants(n)) |->
                  IF Descendants(n)[i].name = "#text" THEN Descendants(n)[i].text ELSE <<>>])

\* tag.string: the only child when it is a text run, the only child's .string when
\* it is an element, None (HasString false) otherwise
RECURSIVE HasString(_)
HasString(n) ==
    /\ Len(n.kids) = 1
    /\ IF n.kids[1].name = "#text" THEN TRUE ELSE HasString(n.kids[1])

RECURSIVE StringOf(_)
StringOf(n) == IF n.kids[1].name = "#text" THEN n.kids[1].text ELSE StringOf(n.kids[1])

\* tag.string.replace_with(s)
RECURSIVE ReplaceString(_, _)
ReplaceString(n, s) ==
    IF n.kids[1].name = "#text" THEN [n EXCEPT !.kids = <<Txt(s)>>]
    ELSE [n EXCEPT !.kids = <<ReplaceString(n.kids[1], s)>>]

s_bracket == <<"b", "r", "a", "c", "k", "e", "t">>
s_0 == <<"0">>
s_1 == <<"1">>
s_d == <<"d">>
s_m == <<"m">>
s_edit == <<"e", "d", "i", "t">>
s_above == <<"a", "b", "o", "v", "e">>
\* tag.get(k) of a missing attribute, written back as an attribute value
s_None == <<"N", "o", "n", "e">>

\* the elements a pass looks for
Matches(kind, n) ==
    CASE kind = "bracket" ->
            n.name = "line" /\ HasAttr(n, "type") /\ n.attrs["type"] = s_bracket
      [] kind = "empty_verse" ->
            n.name = "verse" /\ \A i \in 1..Len(n.kids) : ~IsTag(n.kids[i])
      [] kind = "other_layer" ->
            n.name = "layer" /\ ~(HasAttr(n, "n") /\ n.attrs["n"] = s_1)
      [] kind = "layer_1" ->
            n.name = "layer" /\ HasAttr(n, "n") /\ n.attrs["n"] = s_1
      [] kind = "incipit" ->
            /\ n.name = "measure"
            /\ HasAttr(n, "label") /\ n.attrs["label"] = s_0
            /\ HasAttr(n, "n") /\ n.attrs["n"] = s_1
      [] kind = "accid_ges" -> n.name = "accid" /\ HasAttr(n, "accid.ges")
      [] OTHER -> n.name = kind

\* how many elements of the kind there are in n and below it
RECURSIVE CountIn(_, _)
CountIn(n, kind) ==
    LET below == [i \in 1..Len(n.kids) |-> CountIn(n.kids[i], kind)]
        Sum[i \in 0..Len(n.kids)] == IF i = 0 THEN 0 ELSE Sum[i - 1] + below[i]
    IN  (IF Matches(kind, n) THEN 1 ELSE 0) + Sum[Len(n.kids)]

\* the edits the passes make to one element they hold a reference to; the value
\* is what stands in the element's place afterwards
ApplyEdit(edit, n, arg) ==
    CASE edit = "decompose" -> <<>>
      [] edit = "replace" -> <<arg>>
      [] edit = "merge_syl" ->
            <<SetAttr(SetAttr(ReplaceString(n, arg), "con", s_d), "wordpos", s_m)>>
      [] edit = "extend" -> <<[n EXCEPT !.kids = n.kids \o arg]>>
      [] edit = "set_string" -> <<[n EXCEPT !.kids = <<Txt(arg)>>]>>
      [] edit = "ges_to_accid" ->
            <<DelAttrs(SetAttr(n, "accid", n.attrs["accid.ges"]), {"accid.ges"})>>
      [] edit = "supply" ->
            <<Elem("supplied", ("reason" :> s_edit) @@ ("xml:id" :> arg[2]),
                   <<Elem("accid", ("accid" :> arg[1]) @@ ("func" :> s_edit)
                                   @@ ("place" :> s_above) @@ ("xml:id" :> arg[3]), <<>>)>>)>>

\* the edit applied to the k-th element of the kind in document order, counting n
\* itself: the elements that stand in n's place afterwards
RECURSIVE EditNth(_, _, _, _, _)
EditNth(n, kind, k, edit, arg) ==
    IF Matches(kind, n) /\ k = 1 THEN ApplyEdit(edit, n, arg)
    ELSE LET k1 == IF Matches(kind, n) THEN k - 1 ELSE k
             Before[i \in 0..Len(n.kids)] ==
                 IF i = 0 THEN 0 ELSE Before[i - 1] + CountIn(n.kids[i], kind)
             newKids == [i \in 1..Len(n.kids) |->
                 IF Before[i - 1] < k1 /\ k1 <= Before[i]
                 THEN EditNth(n.kids[i], kind, k1 - Before[i - 1], edit, arg)
                 ELSE <<n.kids[i]>>]
         IN  <<[n EXCEPT !.kids = Flatten(newKids)]>>

\* the same for the k-th element of the kind below n (tag.find, tag.find_all)
EditNthBelow(n, kind, k, edit, arg) ==
    EditNth(n, kind, IF Matches(kind, n) THEN k + 1 ELSE k, edit, arg)[1]

\* tag.decompose() for every descendant of n that was a target when the pass listed
\* them: a target goes with everything below it
RECURSIVE DeleteKind(_, _)
DeleteKind(n, kind) ==
    LET keep == SelectSeq(n.kids, LAMBDA k : ~Matches(kind, k))
    IN  [n EXCEPT !.kids = [i \in 1..Len(keep) |-> DeleteKind(keep[i], kind)]]

-----------------------------------------------------------------------------
(* The attributes the passes probe with hasattr(self, ...): __init__ sets none *)
(* of them, a caller may have set them on the processor object.                *)

FlagNames == {"remove_incipit", "remove_senfl_bracket", "remove_empty_verse",
              "remove_empty_verses", "remove_lyrics", "remove_chord"}

HasFlag(fl, f) == fl[f] # "unset"
FlagTrue(fl, f) == fl[f] = "true"

-----------------------------------------------------------------------------
(* The passes.  Each is soup -> Ok(soup') or Raise(exception).                 *)

\* fix_verse without the second_syllable.decompose() of line 121
fix_verse_keeps_second(verse) ==
    LET syllables == FindAll(verse, "syl")
        first_syllable == syllables[1]
        second_syllable == syllables[2]
        new_text == GetText(first_syllable) \o <<"_">> \o GetText(second_syllable)
    IN  IF Len(syllables) <= 1 THEN verse
        ELSE IF ~(HasString(first_syllable) /\ StringOf(first_syllable) # <<>>
                  /\ HasString(second_syllable) /\ StringOf(second_syllable) # <<>>)
        THEN verse
        ELSE EditNthBelow(verse, "syl", 1, "merge_syl", new_text)

\* fix_verse decomposing every syllable after the first, not the second only
fix_verse_drops_rest(verse) ==
    LET syllables == FindAll(verse, "syl")
        first_syllable == syllables[1]
        second_syllable == syllables[2]
        new_text == GetText(first_syllable) \o <<"_">> \o GetText(second_syllable)
    IN  IF Len(syllables) <= 1 THEN verse
        ELSE IF ~(HasString(first_syllable) /\ StringOf(first_syllable) # <<>>
                  /\ HasString(second_syllable) /\ StringOf(second_syllable) # <<>>)
        THEN verse
        ELSE IF Len(syllables) = 2
        THEN EditNthBelow(EditNthBelow(verse, "syl", 1, "merge_syl", new_text),
                          "syl", 2, "decompose", <<>>)
        ELSE EditNthBelow(EditNthBelow(EditNthBelow(verse, "syl", 1, "merge_syl", new_text),
                                       "syl", 2, "decompose", <<>>),
                          "syl", 2, "decompose", <<>>)

\* _fix_elisions, the body of the loop for one verse: when the first two syl below
\* it both have a .string, the first takes the joined text and the second is dropped
fix_verse(verse) ==
    LET syllables == FindAll(verse, "syl")
        first_syllable == syllables[1]
        second_syllable == syllables[2]
        new_text == GetText(first_syllable) \o <<"_">> \o GetText(second_syllable)
    IN  IF Len(syllables) <= 1 THEN verse
        ELSE IF ~(HasString(first_syllable) /\ StringOf(first_syllable) # <<>>
                  /\ HasString(second_syllable) /\ StringOf(second_syllable) # <<>>)
        THEN verse
        ELSE EditNthBelow(EditNthBelow(verse, "syl", 1, "merge_syl", new_text),
                          "syl", 2, "decompose", <<>>)

RECURSIVE fix_elisions_rec(_)
fix_elisions_rec(n) ==
    LET m == IF n.name = "verse" THEN fix_verse(n) ELSE n
    IN  [m EXCEPT !.kids = [i \in 1..Len(m.kids) |-> fix_elisions_rec(m.kids[i])]]

fix_elisions(t) == Ok(fix_elisions_rec(t))

\* slur_to_tie_rec without the del slur['tstamp2'] of line 144
RECURSIVE slur_to_tie_keeps_tstamp2(_)
slur_to_tie_keeps_tstamp2(n) ==
    LET m == IF n.name = "slur"
             THEN [DelAttrs(n, {"layer", "tstamp", "staff"}) EXCEPT !.name = "tie"]
             ELSE n
    IN  [m EXCEPT !.kids = [i \in 1..Len(n.kids) |-> slur_to_tie_keeps_tstamp2(n.kids[i])]]

\* _slur_to_tie
RECURSIVE slur_to_tie_rec(_)
slur_to_tie_rec(n) ==
    LET m == IF n.name = "slur"
             THEN [DelAttrs(n, {"layer", "tstamp", "tstamp2", "staff"}) EXCEPT !.name = "tie"]
             ELSE n
    IN  [m EXCEPT !.kids = [i \in 1..Len(n.kids) |-> slur_to_tie_rec(n.kids[i])]]

slur_to_tie(t) == Ok(slur_to_tie_rec(t))

\* _remove_tstamp_vel
RECURSIVE remove_tstamp_vel_rec(_)
remove_tstamp_vel_rec(n) ==
    LET m == IF n.name \in {"note", "rest", "mRest"} THEN DelAttrs(n, {"tstamp.real", "vel"})
             ELSE IF n.name = "tie" THEN DelAttrs(n, {"tstamp", "tstamp2"})
             ELSE n
    IN  [m EXCEPT !.kids = [i \in 1..Len(n.kids) |-> remove_tstamp_vel_rec(n.kids[i])]]

remove_tstamp_vel(t) == Ok(remove_tstamp_vel_rec(t))

\* _remove_senfl_bracket
remove_senfl_bracket(t, fl) ==
    IF HasFlag(fl, "remove_senfl_bracket") /\ FlagTrue(fl, "remove_senfl_bracket")
    THEN Ok(DeleteKind(t, "bracket")) ELSE Ok(t)

\* _remove_empty_verse
remove_empty_verse(t, fl) ==
    IF HasFlag(fl, "remove_empty_verse") /\ FlagTrue(fl, "remove_empty_verse")
    THEN Ok(DeleteKind(t, "empty_verse")) ELSE Ok(t)

\* _remove_empty_verses: probes remove_empty_verse, then reads remove_empty_verses
remove_empty_verses(t, fl) ==
    IF ~HasFlag(fl, "remove_empty_verse") THEN Ok(t)
    ELSE IF ~HasFlag(fl, "remove_empty_verses") THEN Raise("AttributeError")
    ELSE IF FlagTrue(fl, "remove_empty_verses") THEN Ok(DeleteKind(t, "empty_verse"))
    ELSE Ok(t)

\* a verse below a verse: decomposing the outer one leaves the inner one, still in
\* the list, without parent and attributes
NestedVerse(t) ==
    \E i \in 1..Len(SoupFindAll(t, "verse")) : Len(FindAll(SoupFindAll(t, "verse")[i], "verse")) > 0

\* _remove_lyrics
remove_lyrics(t, fl) ==
    IF HasFlag(fl, "remove_lyrics") /\ FlagTrue(fl, "remove_lyrics")
    THEN IF NestedVerse(t) THEN Raise("AttributeError") ELSE Ok(DeleteKind(t, "verse"))
    ELSE Ok(t)

\* _remove_chords: the attribute probed is remove_chord
remove_chords(t, fl) ==
    IF HasFlag(fl, "remove_chord") /\ FlagTrue(fl, "remove_chord")
    THEN Ok(DeleteKind(t, "chord")) ELSE Ok(t)

\* _remove_anchored_text
remove_anchored_text(t) == Ok(DeleteKind(t, "anchoredText"))

\* renumber that never takes a measure number below 1
RECURSIVE renumber_stops_at_one(_)
renumber_stops_at_one(n) ==
    LET m == IF n.name = "measure" /\ ParseInt(n.attrs["n"]) > 1
             THEN SetAttr(n, "n", FormatInt(ParseInt(n.attrs["n"]) - 1)) ELSE n
    IN  [m EXCEPT !.kids = [i \in 1..Len(n.kids) |-> renumber_stops_at_one(n.kids[i])]]

\* _remove_incipit: the removal is behind the probed attribute, the renumbering is
\* not; measure['n'] of a measure without n is a KeyError, int() of something that
\* is no number a ValueError
RECURSIVE renumber(_)
renumber(n) ==
    LET m == IF n.name = "measure"
             THEN SetAttr(n, "n", FormatInt(ParseInt(n.attrs["n"]) - 1)) ELSE n
    IN  [m EXCEPT !.kids = [i \in 1..Len(n.kids) |-> renumber(n.kids[i])]]

remove_incipit(t, fl) ==
    LET t1 == IF HasFlag(fl, "remove_incipit") /\ FlagTrue(fl, "remove_incipit")
              THEN EditNthBelow(t, "incipit", 1, "decompose", <<>>) ELSE t
        remaining_measures == SoupFindAll(t1, "measure")
        Bad(i) == ~HasAttr(remaining_measures[i], "n")
                  \/ ~IsIntLiteral(remaining_measures[i].attrs["n"])
    IN  IF \E i \in 1..Len(remaining_measures) : Bad(i)
        THEN LET i == CHOOSE j \in 1..Len(remaining_measures) :
                          Bad(j) /\ \A h \in 1..(j - 1) : ~Bad(h)
             IN  IF HasAttr(remaining_measures[i], "n") THEN Raise("ValueError")
                 ELSE Raise("KeyError")
        ELSE Ok(renumber(t1))

\* collapse_staff without the layer.extract() of line 294
collapse_staff_keeps_layers(staff) ==
    LET others == SelectSeq(FindAll(staff, "layer"), LAMBDA l : Matches("other_layer", l))
    IN  IF CountIn(staff, "layer_1") - (IF Matches("layer_1", staff) THEN 1 ELSE 0) = 0
        THEN staff
        ELSE EditNthBelow(staff, "layer_1", 1, "extend",
                          Flatten([i \in 1..Len(others) |-> others[i].kids]))

\* _collapse_layers, the body of the loop for one staff whose n is a number: the
\* contents of the layers other than the first layer 1 go to the end of that layer,
\* in document order, and the emptied layers are taken out
collapse_staff(staff) ==
    LET layers == FindAll(staff, "layer")
        others == SelectSeq(layers, LAMBDA l : Matches("other_layer", l))
        moved == Flatten([i \in 1..Len(others) |-> others[i].kids])
    IN  IF CountIn(staff, "layer_1") - (IF Matches("layer_1", staff) THEN 1 ELSE 0) = 0
        THEN staff
        ELSE EditNthBelow(DeleteKind(staff, "other_layer"), "layer_1", 1, "extend", moved)

RECURSIVE collapse_layers_rec(_)
collapse_layers_rec(n) ==
    LET m == IF n.name = "staff" /\ HasAttr(n, "n") /\ IsDigits(n.attrs["n"])
             THEN collapse_staff(n) ELSE n
    IN  [m EXCEPT !.kids = [i \in 1..Len(m.kids) |-> collapse_layers_rec(m.kids[i])]]

collapse_layers(t) == Ok(collapse_layers_rec(t))

\* _ficta_to_supplied, the body of the loop for one note that has a color and an
\* accid below it; id1 and id2 are the two random.randint draws
XmlId(id) == <<"m", "-">> \o FormatInt(id)

\* supply_note without the del note['color'] of line 183
supply_note_keeps_color(note, id1, id2) ==
    LET n1 == IF CountIn(note, "accid_ges") > 0
              THEN EditNthBelow(note, "accid_ges", 1, "ges_to_accid", <<>>) ELSE note
        accid_tag == FindAll(n1, "accid")[1]
        accid_value == IF HasAttr(accid_tag, "accid") THEN accid_tag.attrs["accid"] ELSE s_None
    IN  EditNthBelow(n1, "accid", 1, "supply", <<accid_value, XmlId(id1), XmlId(id2)>>)

\* supply_note without the renaming of accid.ges of lines 177-182
supply_note_ignores_ges(note, id1, id2) ==
    LET accid_tag == FindAll(note, "accid")[1]
        accid_value == IF HasAttr(accid_tag, "accid") THEN accid_tag.attrs["accid"] ELSE s_None
    IN  EditNthBelow(DelAttrs(note, {"color"}), "accid", 1, "supply",
                     <<accid_value, XmlId(id1), XmlId(id2)>>)

supply_note(note, id1, id2) ==
    LET n1 == IF CountIn(note, "accid_ges") > 0
              THEN EditNthBelow(note, "accid_ges", 1, "ges_to_accid", <<>>) ELSE note
        n2 == DelAttrs(n1, {"color"})
        accid_tag == FindAll(n2, "accid")[1]
        accid_value == IF HasAttr(accid_tag, "accid") THEN accid_tag.attrs["accid"] ELSE s_None
    IN  EditNthBelow(n2, "accid", 1, "supply", <<accid_value, XmlId(id1), XmlId(id2)>>)

IsFicta(n) == n.name = "note" /\ HasAttr(n, "color") /\ Len(FindAll(n, "accid")) > 0

\* the loop over the color notes, in document order: k is the next note of the
\* document, j the number of draws used so far
RECURSIVE ficta_loop(_, _, _, _)
ficta_loop(t, k, j, dr) ==
    IF k > CountIn(t, "note") THEN t
    ELSE LET note == SoupFindAll(t, "note")[k]
         IN  IF IsFicta(note)
             THEN ficta_loop(EditNth(t, "note", k, "replace",
                                     supply_note(note, dr[j + 1], dr[j + 2]))[1],
                             k + 1, j + 2, dr)
             ELSE ficta_loop(t, k + 1, j, dr)

ficta_to_supplied(t, dr) == Ok(ficta_loop(DeleteKind(t, "dir"), 1, 0, dr))

\* _add_voice_labels, both loops for one staffDef
voice_label(staff_def) ==
    LET labels == FindAll(staff_def, "label")
        label_text == GetText(labels[1])
        labelled == SetAttr(staff_def, "label", label_text)
    IN  IF Len(labels) = 0 \/ label_text = <<>> THEN staff_def
        ELSE IF CountIn(labelled, "labelAbbr") = 0 THEN labelled
        ELSE EditNthBelow(labelled, "labelAbbr", 1, "set_string",
                          <<Upper(label_text[1]), ".">>)

RECURSIVE add_voice_labels_rec(_)
add_voice_labels_rec(n) ==
    LET m == IF n.name = "staffDef" THEN voice_label(n) ELSE n
    IN  [m EXCEPT !.kids = [i \in 1..Len(m.kids) |-> add_voice_labels_rec(m.kids[i])]]

add_voice_labels(t) == Ok(add_voice_labels_rec(t))

\* _remove_variants: for each app, in document order, the notes below its first lem
\* are appended to the app's parent, then the app is decomposed with what is left in
\* it; app.find('lem') of an app without lem is None, and None.find_all raises
lem_notes(app) == FindAll(FindAll(app, "lem")[1], "note")

RECURSIVE remove_variants_rec(_)
remove_variants_rec(n) ==
    LET apps == SelectSeq(n.kids, LAMBDA k : k.name = "app")
        others == SelectSeq(n.kids, LAMBDA k : k.name # "app")
    IN  [n EXCEPT !.kids =
            [i \in 1..Len(others) |-> remove_variants_rec(others[i])]
            \o Flatten([i \in 1..Len(apps) |-> lem_notes(apps[i])])]

\* an app without lem passed over
remove_variants_never_raises(t) == Ok(t)

remove_variants(t) ==
    IF \E i \in 1..Len(SoupFindAll(t, "app")) : Len(FindAll(SoupFindAll(t, "app")[i], "lem")) = 0
    THEN Raise("AttributeError")
    ELSE Ok(remove_variants_rec(t))

-----------------------------------------------------------------------------
(* _register_modules and the call module() of process_files *)

Registry == {"fix_elisions", "slur_to_tie", "remove_incipit", "remove_tstamp_vel",
             "remove_senfl_bracket", "remove_empty_verse", "remove_lyrics",
             "collapse_layers", "remove_empty_verses", "remove_chords",
             "ficta_to_supplied", "add_voice_labels", "remove_variants",
             "remove_anchored_text"}

\* self._modules[name](): the pass reads self.soup (t) and returns it
CallModule(name, t, fl, dr) ==
    CASE name = "fix_elisions" -> fix_elisions(t)
      [] name = "slur_to_tie" -> slur_to_tie(t)
      [] name = "remove_incipit" -> remove_incipit(t, fl)
      [] name = "remove_tstamp_vel" -> remove_tstamp_vel(t)
      [] name = "remove_senfl_bracket" -> remove_senfl_bracket(t, fl)
      [] name = "remove_empty_verse" -> remove_empty_verse(t, fl)
      [] name = "remove_lyrics" -> remove_lyrics(t, fl)
      [] name = "collapse_layers" -> collapse_layers(t)
      [] name = "remove_empty_verses" -> remove_empty_verses(t, fl)
      [] name = "remove_chords" -> remove_chords(t, fl)
      [] name = "ficta_to_supplied" -> ficta_to_supplied(t, dr)
      [] name = "add_voice_labels" -> add_voice_labels(t)
      [] name = "remove_variants" -> remove_variants(t)
      [] name = "remove_anchored_text" -> remove_anchored_text(t)

-----------------------------------------------------------------------------
(* The documents of the model: a root element over some of the fragments below, *)
(* each fragment the shape one pass is about.                                   *)

s_2 == <<"2">>
s_3 == <<"3">>
s_4 == <<"4">>
s_2a == <<"2", "a">>
s_con == <<"c", "o", "n">>
s_fi == <<"f", "i">>
s_la == <<"l", "a">>
s_red == <<"r", "e", "d">>
s_cantus == <<"c", "a", "n", "t", "u", "s">>
s_x == <<"x">>

Note(p) == Elem("note", "pname" :> <<p>>, <<>>)
Syl(s) == Elem("syl", NoAttrs, <<Txt(s)>>)
Measure(label, n) == Elem("measure", ("label" :> label) @@ ("n" :> n), <<>>)

Fragments == <<
    \* an incipit as _remove_incipit looks for it (label 0, n 1), then measures 2..4
    <<Elem("section", NoAttrs,
           <<Measure(s_0, s_1), Measure(s_1, s_2), Measure(s_2, s_3), Measure(s_3, s_4)>>)>>,
    \* an incipit numbered 0, then measures 1..3
    <<Elem("section", NoAttrs,
           <<Measure(s_0, s_0), Measure(s_1, s_1), Measure(s_2, s_2), Measure(s_3, s_3)>>)>>,
    \* measures without incipit
    <<Elem("measure", "n" :> s_1, <<>>), Elem("measure", "n" :> s_2, <<>>)>>,
    \* a measure without n, a measure whose n is no number
    <<Elem("measure", NoAttrs, <<>>)>>,
    <<Elem("measure", "n" :> s_2a, <<>>)>>,
    \* verses with two and with three syllables
    <<Elem("verse", "n" :> s_1, <<Syl(s_con), Syl(s_fi)>>)>>,
    <<Elem("verse", "n" :> s_1, <<Syl(s_con), Syl(s_fi), Syl(s_la)>>)>>,
    \* a verse with one syllable, an empty verse
    <<Elem("verse", NoAttrs, <<Syl(s_la)>>), Elem("verse", NoAttrs, <<>>)>>,
    \* a verse in a verse
    <<Elem("verse", NoAttrs, <<Elem("verse", NoAttrs, <<>>)>>)>>,
    \* a slur holding a slur, a tie and a rest with positions
    <<Elem("slur", ("layer" :> s_1) @@ ("tstamp" :> s_1) @@ ("tstamp2" :> s_2)
                   @@ ("staff" :> s_1) @@ ("startid" :> s_x),
           <<Elem("slur", "staff" :> s_2, <<>>)>>),
      Elem("tie", ("tstamp" :> s_1) @@ ("tstamp2" :> s_2) @@ ("startid" :> s_x), <<>>),
      Elem("rest", ("tstamp.real" :> s_1) @@ ("vel" :> s_2) @@ ("dur" :> s_4), <<>>)>>,
    \* a bracket line and another line
    <<Elem("line", "type" :> s_bracket, <<>>), Elem("line", "type" :> s_x, <<>>)>>,
    \* a chord
    <<Elem("chord", NoAttrs, <<Note("c"), Note("e")>>)>>,
    \* a staff with three layers
    <<Elem("staff", "n" :> s_1,
           <<Elem("layer", "n" :> s_1, <<Note("c")>>),
             Elem("layer", "n" :> s_2, <<Note("d"), Note("e")>>),
             Elem("layer", "n" :> s_3, <<>>)>>)>>,
    \* ficta: colored notes with an accid (gestural, written), one without, a dir
    <<Elem("note", ("pname" :> <<"f">>) @@ ("color" :> s_red),
           <<Elem("accid", "accid.ges" :> <<"s">>, <<>>)>>),
      Elem("note", ("pname" :> <<"b">>) @@ ("color" :> s_red),
           <<Elem("accid", "accid" :> <<"f">>, <<>>)>>),
      Elem("note", ("pname" :> <<"g">>) @@ ("color" :> s_red), <<>>),
      Elem("dir", NoAttrs, <<Txt(s_x)>>)>>,
    \* a staff definition with label and abbreviation
    <<Elem("staffDef", "n" :> s_1,
           <<Elem("label", NoAttrs, <<Txt(s_cantus)>>),
             Elem("labelAbbr", NoAttrs, <<Txt(s_x)>>)>>)>>,
    \* an app with a lem of two notes and a rdg of one, between two notes
    <<Elem("layer", "n" :> s_1,
           <<Note("a"),
             Elem("app", NoAttrs,
                  <<Elem("lem", NoAttrs, <<Note("b"), Note("c")>>),
                    Elem("rdg", NoAttrs, <<Note("d")>>)>>),
             Note("e")>>)>>,
    \* an app without lem
    <<Elem("app", NoAttrs, <<Elem("rdg", NoAttrs, <<Note("d")>>)>>)>>,
    \* anchored text
    <<Elem("anchoredText", NoAttrs, <<Txt(s_x)>>)>>,
    \* a verse of two syllables, the second without text
    <<Elem("verse", "n" :> s_2, <<Syl(s_la), Elem("syl", NoAttrs, <<>>)>>)>>,
    \* a dir where no note has a color
    <<Elem("dir", "tstamp" :> s_1, <<Txt(s_la)>>)>>,
    \* a staff whose layers are numbered 2 and 3
    <<Elem("staff", "n" :> s_2,
           <<Elem("layer", "n" :> s_2, <<Note("f")>>),
             Elem("layer", "n" :> s_3, <<Note("g")>>)>>)>>,
    \* a staff without n
    <<Elem("staff", NoAttrs,
           <<Elem("layer", "n" :> s_1, <<Note("a")>>),
             Elem("layer", "n" :> s_2, <<Note("b")>>)>>)>>,
    \* a verse of three syllables, the first without text
    <<Elem("verse", "n" :> s_3, <<Elem("syl", NoAttrs, <<>>), Syl(s_fi), Syl(s_la)>>)>>
>>

\* how many fragments a document holds at most
MaxFrags == 2

FragSets == {F \in SUBSET (1..Len(Fragments)) : Cardinality(F) <= MaxFrags}

RECURSIVE FragsOf(_, _)
FragsOf(F, i) ==
    IF i > Len(Fragments) THEN <<>>
    ELSE (IF i \in F THEN Fragments[i] ELSE <<>>) \o FragsOf(F, i + 1)

Doc(F) == Elem("mei", NoAttrs, FragsOf(F, 1))

Docs == {Doc(F) : F \in FragSets}

\* the processor as constructed, and with the probed attributes set by the caller
FlagSettings == {
    [f \in FlagNames |-> "unset"],
    [f \in FlagNames |-> "true"],
    [f \in FlagNames |-> "false"],
    [f \in FlagNames |-> IF f = "remove_empty_verse" THEN "true" ELSE "unset"]}

\* random.randint(10000, 99999): the two ends of the range stand for the draws
RandLo == 10000
RandHi == 99999
\* the draws one application may use
NumDraws == 4
DrawSeqs == [1..NumDraws -> {RandLo, RandHi}]
NoDraws == [i \in 1..NumDraws |-> RandLo]

ReadsFlags(p) == p \in {"remove_incipit", "remove_senfl_bracket", "remove_empty_verse",
                        "remove_empty_verses", "remove_lyrics", "remove_chords"}

-----------------------------------------------------------------------------
(* One pass applied once, and once more to its own result *)

IdleP == /\ pass = "" /\ draws = NoDraws
         /\ input = NoTree /\ out1 = Raise("") /\ out2 = Raise("") /\ pcP = "idle"
IdleD == /\ files = <<>> /\ modules = <<>> /\ idx = 0 /\ modIdx = 0
         /\ soup = NoTree /\ processed_soup = NoTree /\ loaded = NoTree
         /\ applied = <<>> /\ warned = <<>>
         /\ results = <<>> /\ saved = <<>> /\ pcD = "idle"
IdleR == /\ htree = NoTree /\ record = <<>> /\ res1 = Raise("") /\ res2 = Raise("")
         /\ outputs = <<>>
         /\ pcR = "idle"
IdleM == /\ processor = "" /\ md_files = <<>> /\ metadata_dict_list = <<>> /\ md_idx = 0
         /\ md_soup = NoTree /\ md_results = <<>> /\ md_saved = <<>> /\ pcM = "idle"
IdleW == /\ shared = FALSE /\ docs = <<>> /\ wmodules = <<>> /\ heap = <<>>
         /\ self_soup = <<>> /\ processed = <<>> /\ wIdx = <<>> /\ wpc = <<>>
         /\ wresults = <<>> /\ wsaved = <<>> /\ touched = {} /\ steps = <<>>

InitPass ==
    /\ pass \in Registry
    /\ flags \in FlagSettings
    /\ ReadsFlags(pass) \/ flags = [f \in FlagNames |-> "unset"]
    /\ draws \in DrawSeqs
    /\ input \in Docs
    /\ (pass = "ficta_to_supplied" /\ CountIn(input, "note") > 0) \/ draws = NoDraws
    /\ out1 = Raise("") /\ out2 = Raise("")
    /\ pcP = "start"
    /\ IdleD /\ IdleR /\ IdleM /\ IdleW

ApplyOnce ==
    /\ pcP = "start"
    /\ out1' = CallModule(pass, input, flags, draws)
    /\ pcP' = "once"
    /\ UNCHANGED <<flags, pass, draws, input, out2, varsD, varsR, varsM, varsW>>

\* the pass run again on the tree it returned, with draws of its own
ApplyAgain ==
    /\ pcP = "once" /\ out1.ok
    /\ \E dr \in DrawSeqs :
          /\ pass = "ficta_to_supplied" \/ dr = NoDraws
          /\ out2' = CallModule(pass, out1.tree, flags, dr)
    /\ pcP' = "twice"
    /\ UNCHANGED <<flags, pass, draws, input, out1, varsD, varsR, varsM, varsW>>

NextPass == ApplyOnce \/ ApplyAgain

SpecPass == InitPass /\ [][NextPass]_vars

-----------------------------------------------------------------------------
(* process_files: the batch driver.  A file of the source folder is the tree its *)
(* text parses to, whether load_mei_file can read it and whether                 *)
(* save_processed_file can write its output.                                     *)

\* the lengths of the folder listing and of modules_to_apply
MaxFiles == 2
MaxModules == 2

DriverNames == {"fix_elisions", "collapse_layers", "remove_variants", "no_such_module"}

\* a verse of three syllables and an app; an app without lem; a verse of three
\* syllables and an app without lem; an app in layer 1 of a staff with two layers
DriverDocs == {
    Doc({7, 16}),
    Doc({17}),
    Doc({7, 17}),
    Elem("mei", NoAttrs,
         <<Elem("staff", "n" :> s_1,
                <<Elem("layer", "n" :> s_1,
                       <<Elem("app", NoAttrs, <<Elem("lem", NoAttrs, <<Note("c")>>)>>),
                         Note("a")>>),
                  Elem("layer", "n" :> s_2, <<Note("b")>>)>>)>>)}

FileKinds == {[tree |-> d, loadable |-> l, writable |-> w] :
                 d \in DriverDocs, l \in BOOLEAN, w \in BOOLEAN}

SeqsUpTo(S, k) == UNION {[1..m -> S] : m \in 0..k}

\* the position after the current file: the next file, or the return
NextFile == /\ idx' = idx + 1
            /\ pcD' = IF idx + 1 > Len(files) THEN "done" ELSE "load"

InitDriver ==
    /\ files \in SeqsUpTo({f \in FileKinds : f.loadable \/ f.writable}, MaxFiles)
    /\ modules \in SeqsUpTo(DriverNames, MaxModules)
    /\ flags = [f \in FlagNames |-> "unset"]
    /\ idx = 1 /\ modIdx = 0
    /\ soup = NoTree /\ processed_soup = NoTree /\ loaded = NoTree
    /\ applied = <<>> /\ warned = <<>>
    /\ results = <<>> /\ saved = <<>>
    /\ pcD = IF Len(files) = 0 THEN "done" ELSE "load"
    /\ IdleP /\ IdleR /\ IdleM /\ IdleW

\* (mutant) the except clause missing: the failure ends the batch
Failed_aborts == /\ results' = (idx :> "error") @@ results
                 /\ idx' = idx
                 /\ pcD' = "done"

\* results[file_path] = "error: ..." in the except clause, then the next file
Failed == /\ results' = (idx :> "error") @@ results
          /\ NextFile

\* self.soup = self.load_mei_file(file_path); processed_soup = self.soup
LoadFile ==
    /\ pcD = "load"
    /\ IF files[idx].loadable
       THEN /\ soup' = files[idx].tree
            /\ processed_soup' = files[idx].tree
            /\ loaded' = files[idx].tree
            /\ applied' = <<>>
            /\ modIdx' = 1
            /\ pcD' = "modules"
            /\ UNCHANGED <<idx, results>>
       ELSE /\ Failed
            /\ UNCHANGED <<soup, processed_soup, loaded, applied, modIdx>>
    /\ UNCHANGED <<files, modules, flags, warned, saved, varsP, varsR, varsM, varsW>>

\* (mutant) the module is handed the tree as loaded, not the tree the previous
\* module left
ApplyModule_onLoaded ==
    /\ pcD = "modules" /\ modIdx <= Len(modules)
    /\ modules[modIdx] \in Registry
    /\ \E dr \in DrawSeqs :
        /\ modules[modIdx] = "ficta_to_supplied" \/ dr = NoDraws
        /\ LET r == CallModule(modules[modIdx], loaded, flags, dr)
           IN  IF r.ok
               THEN /\ soup' = r.tree
                    /\ processed_soup' = r.tree
                    /\ applied' = Append(applied, modules[modIdx])
                    /\ modIdx' = modIdx + 1
                    /\ UNCHANGED <<idx, results, pcD>>
               ELSE /\ Failed
                    /\ UNCHANGED <<soup, processed_soup, applied, modIdx>>
    /\ UNCHANGED <<files, modules, flags, loaded, warned, saved, varsP, varsR, varsM, varsW>>

\* (mutant) an exception of the module is swallowed: the loop goes on with the
\* tree as it was and the document is saved
ApplyModule_goes_on ==
    /\ pcD = "modules" /\ modIdx <= Len(modules)
    /\ modules[modIdx] \in Registry
    /\ \E dr \in DrawSeqs :
        /\ modules[modIdx] = "ficta_to_supplied" \/ dr = NoDraws
        /\ LET r == CallModule(modules[modIdx], soup, flags, dr)
           IN  IF r.ok
               THEN /\ soup' = r.tree
                    /\ processed_soup' = r.tree
                    /\ applied' = Append(applied, modules[modIdx])
                    /\ modIdx' = modIdx + 1
                    /\ UNCHANGED <<idx, results, pcD>>
               ELSE /\ modIdx' = modIdx + 1
                    /\ UNCHANGED <<soup, processed_soup, applied, idx, results, pcD>>
    /\ UNCHANGED <<files, modules, flags, loaded, warned, saved, varsP, varsR, varsM, varsW>>

\* one turn of the loop over modules_to_apply for a registered name:
\* processed_soup = module(), the module working on self.soup
ApplyModule ==
    /\ pcD = "modules" /\ modIdx <= Len(modules)
    /\ modules[modIdx] \in Registry
    /\ \E dr \in DrawSeqs :
        /\ modules[modIdx] = "ficta_to_supplied" \/ dr = NoDraws
        /\ LET r == CallModule(modules[modIdx], soup, flags, dr)
           IN  IF r.ok
               THEN /\ soup' = r.tree
                    /\ processed_soup' = r.tree
                    /\ applied' = Append(applied, modules[modIdx])
                    /\ modIdx' = modIdx + 1
                    /\ UNCHANGED <<idx, results, pcD>>
               ELSE /\ Failed
                    /\ UNCHANGED <<soup, processed_soup, applied, modIdx>>
    /\ UNCHANGED <<files, modules, flags, loaded, warned, saved, varsP, varsR, varsM, varsW>>

\* (mutant) a name that is not registered is a failure of the document
SkipUnknown_fails ==
    /\ pcD = "modules" /\ modIdx <= Len(modules)
    /\ modules[modIdx] \notin Registry
    /\ Failed
    /\ UNCHANGED <<files, modules, flags, soup, processed_soup, loaded, applied, modIdx,
                   warned, saved, varsP, varsR, varsM, varsW>>

\* one turn of the loop for a name that is not registered: a warning, continue
SkipUnknown ==
    /\ pcD = "modules" /\ modIdx <= Len(modules)
    /\ modules[modIdx] \notin Registry
    /\ warned' = Append(warned, <<idx, modules[modIdx]>>)
    /\ modIdx' = modIdx + 1
    /\ UNCHANGED <<files, modules, flags, idx, soup, processed_soup, loaded, applied,
                   results, saved, pcD, varsP, varsR, varsM, varsW>>

\* after the loop: save_processed_file(processed_soup, output_path), then
\* results[file_path] = "success"
SaveFile ==
    /\ pcD = "modules" /\ modIdx > Len(modules)
    /\ IF files[idx].writable
       THEN /\ saved' = (idx :> processed_soup) @@ saved
            /\ results' = (idx :> "success") @@ results
            /\ NextFile
       ELSE /\ Failed
            /\ UNCHANGED saved
    /\ UNCHANGED <<files, modules, flags, soup, processed_soup, loaded, applied, modIdx,
                   warned, varsP, varsR, varsM, varsW>>

Next == LoadFile \/ ApplyModule \/ SkipUnknown \/ SaveFile

Spec == InitDriver /\ [][Next]_vars

-----------------------------------------------------------------------------
(* MEI_Metadata_Updater.apply_metadata: the header of an lxml tree reconciled  *)
(* with one record (metadata_dict).  The value is Ok(tree) when the function   *)
(* reaches tree.write, Raise(exception) when an exception leaves it.  The def  *)
(* of line 43 stands one level too deep in the file; the model takes the       *)
(* function as the method of the class that its self parameter makes it.       *)

\* ns['mei']
MeiNs == "http://www.music-encoding.org/ns/mei/4.0"

\* etree.Element(etree.QName(ns['mei'], name), nsmap=ns)
El(name) == [name |-> name, ns |-> MeiNs, attrs |-> NoAttrs, text |-> <<>>, kids |-> <<>>]

\* metadata_dict.get(k, '')
Get(R, k) == IF k \in DOMAIN R THEN R[k] ELSE <<>>

\* el.find('mei:name', namespaces=ns): the position of the first child of that
\* name in the MEI namespace, 0 for None
Find(n, name) ==
    LET hit(i) == n.kids[i].name = name /\ n.kids[i].ns = MeiNs
    IN  IF \E i \in 1..Len(n.kids) : hit(i)
        THEN CHOOSE i \in 1..Len(n.kids) : hit(i) /\ \A j \in 1..(i - 1) : ~hit(j)
        ELSE 0

AppendChild(n, k) == [n EXCEPT !.kids = Append(@, k)]

\* parent.remove(child), child the i-th child
RemoveAt(n, i) == [n EXCEPT !.kids = SubSeq(@, 1, i - 1) \o SubSeq(@, i + 1, Len(@))]

SetKid(n, i, k) == [n EXCEPT !.kids[i] = k]

SetText(n, s) == [n EXCEPT !.text = s]

\* a new element appended whether or not one is there
FindOrCreate_appends(n, name) == AppendChild(n, El(name))

\* "if x is None: x = etree.Element(...); parent.append(x)"
FindOrCreate(n, name) == IF Find(n, name) = 0 THEN AppendChild(n, El(name)) ELSE n

\* "if x is not None: parent.remove(x)"
RemoveFound(n, name) == IF Find(n, name) = 0 THEN n ELSE RemoveAt(n, Find(n, name))

\* f(e), with e computed once and f applied to its value
Then(e, f(_)) == CHOOSE y \in {f(x) : x \in {e}} : TRUE

\* the element path leads to from n, every step the first child of that name
\* (el.find step by step); NoTree for None
RECURSIVE At(_, _)
At(n, path) ==
    IF path = <<>> THEN n
    ELSE IF Find(n, Head(path)) = 0 THEN NoTree
    ELSE At(n.kids[Find(n, Head(path))], Tail(path))

\* n with the element at path found or created, step by step
RECURSIVE Ensure(_, _)
Ensure(n, path) ==
    IF path = <<>> THEN n
    ELSE Then(FindOrCreate(n, Head(path)), LAMBDA m :
              SetKid(m, Find(m, Head(path)),
                     Ensure(m.kids[Find(m, Head(path))], Tail(path))))

\* n after the element at path, which is there, was edited in place to new
RECURSIVE Put(_, _, _)
Put(n, path, new) ==
    IF path = <<>> THEN new
    ELSE SetKid(n, Find(n, Head(path)),
                Put(n.kids[Find(n, Head(path))], Tail(path), new))

\* "if x is not None: parent.remove(x)" for the element at path
RECURSIVE Cut(_, _)
Cut(n, path) ==
    IF Find(n, Head(path)) = 0 THEN n
    ELSE IF Len(path) = 1 THEN RemoveAt(n, Find(n, Head(path)))
    ELSE SetKid(n, Find(n, Head(path)), Cut(n.kids[Find(n, Head(path))], Tail(path)))

\* "if not list(x): parent.remove(x)" for the element at path, which is there
Prune(n, path) == IF At(n, path).kids = <<>> THEN Cut(n, path) ELSE n

\* a leaf that carries one field as its text (title, genre, locus, notes, ...)
UpsertText(parent, name, value) ==
    IF value # <<>>
    THEN LET p == FindOrCreate(parent, name)
             i == Find(p, name)
         IN  SetKid(p, i, SetText(p.kids[i], value))
    ELSE RemoveFound(parent, name)

\* a date leaf: the value is its when attribute and its text
UpsertDate(parent, value) ==
    IF value # <<>>
    THEN LET p == FindOrCreate(parent, "date")
             i == Find(p, "date")
         IN  SetKid(p, i, SetText(SetAttr(p.kids[i], "when", value), value))
    ELSE RemoveFound(parent, "date")

\* ' '.join(uris)
RECURSIVE Join(_)
Join(uris) ==
    IF Len(uris) = 0 THEN <<>>
    ELSE IF Len(uris) = 1 THEN uris[1]
    ELSE uris[1] \o <<" ">> \o Join(Tail(uris))

\* sameas_uris: the values of the two keys that are not empty
Uris(R, viaf, bnf) ==
    (IF Get(R, viaf) # <<>> THEN <<Get(R, viaf)>> ELSE <<>>)
    \o (IF Get(R, bnf) # <<>> THEN <<Get(R, bnf)>> ELSE <<>>)

s_265 == <<"#", "2", "6", "5", " ">>
s_composer == <<"composer">>
s_works == <<"https://ricercardatalab.cesr.univ-tours.fr/works/">>
s_cc_url == <<"https://creativecommons.org/licenses/by-nc-sa/4.0/">>
s_cc_text == <<"Creative Commons Attribution-NonCommercial-ShareAlike 4.0 International License">>
s_gesualdo == <<"Gesualdo Online">>
s_gesualdo_pub == <<"Gesualdo Online  https://ricercardatalab.cesr.univ-tours.fr/fr/projects/3/">>
s_permalink == <<"permalink">>
s_sep == <<" ", "|", " ">>

\* composer_persName setting the role whether or not there is one
composer_persName_sets_role(persName_el, composer_name, R, with_assoc) ==
    LET sameas_uris == Uris(R, "Composer_VIAF", "Composer_BNF_ID")
        assoc == IF with_assoc /\ Get(R, "RDL_ID") # <<>>
                 THEN "assoc" :> (s_works \o Get(R, "RDL_ID") \o <<"/">>) ELSE NoAttrs
        sameas == IF sameas_uris # <<>> THEN "sameas" :> Join(sameas_uris) ELSE NoAttrs
    IN  [persName_el EXCEPT !.text = Strip(composer_name),
                            !.attrs = sameas @@ assoc @@ ("role" :> s_composer) @@ @]

\* lines 113-134: the text and the attributes of the composer's persName
composer_persName(persName_el, composer_name, R, with_assoc) ==
    LET sameas_uris == Uris(R, "Composer_VIAF", "Composer_BNF_ID")
        role == IF HasAttr(persName_el, "role") THEN NoAttrs ELSE "role" :> s_composer
        assoc == IF with_assoc /\ Get(R, "RDL_ID") # <<>>
                 THEN "assoc" :> (s_works \o Get(R, "RDL_ID") \o <<"/">>) ELSE NoAttrs
        sameas == IF sameas_uris # <<>> THEN "sameas" :> Join(sameas_uris) ELSE NoAttrs
    IN  [persName_el EXCEPT !.text = Strip(composer_name),
                            !.attrs = sameas @@ assoc @@ role @@ @]

\* the composer below titleStmt (with assoc) and below work (without)
composer_part(parent, R, with_assoc) ==
    LET composer_name == Replace(Get(R, "Composer_Name"), s_265, <<>>)
    IN  IF composer_name # <<>>
        THEN Then(Ensure(parent, <<"composer", "persName">>), LAMBDA p :
                  Put(p, <<"composer", "persName">>,
                      composer_persName(At(p, <<"composer", "persName">>),
                                        composer_name, R, with_assoc)))
        ELSE Cut(parent, <<"composer">>)

\* lines 80-142: titleStmt of fileDesc
title_stmt(fd, R) ==
    Then(Ensure(fd, <<"titleStmt">>), LAMBDA f1 :
    Then(UpsertText(At(f1, <<"titleStmt">>), "title", Get(R, "Title")), LAMBDA ts :
    Prune(Put(f1, <<"titleStmt">>, composer_part(ts, R, TRUE)), <<"titleStmt">>)))

\* el.find(".//mei:publisher[text()='...']", namespaces=ns): ElementPath knows no
\* text() predicate, the call raises SyntaxError("invalid predicate") for every
\* element and every text
FindPublisherByText(n, text) == Raise("SyntaxError")

LicencePath == <<"pubStmt", "availability", "useStmt", "licence">>

\* a pubStmt part that creates nothing
pub_stmt_creates_nothing(fd) == fd

\* lines 145-191: pubStmt of fileDesc; the exception of the publisher lookup is
\* caught and printed, the publisher is not appended
pub_stmt(fd) ==
    Then(Ensure(fd, <<"pubStmt">>), LAMBDA f1 :
    Then(IF FindPublisherByText(At(f1, <<"pubStmt">>), s_gesualdo).ok
         THEN Put(f1, <<"pubStmt">>,
                  AppendChild(At(f1, <<"pubStmt">>),
                      [Elem("publisher", NoAttrs, <<>>) EXCEPT !.text = s_gesualdo_pub]))
         ELSE f1, LAMBDA f2 :
    Then(Ensure(f2, LicencePath), LAMBDA f3 :
    Then(Put(f3, LicencePath,
             SetText(SetAttr(At(f3, LicencePath), "target", s_cc_url), s_cc_text)), LAMBDA f4 :
    Then(Prune(f4, <<"pubStmt", "availability">>), LAMBDA f5 :
    Prune(f5, <<"pubStmt">>))))))

IsEditor(n) == n.name = "editor" /\ n.ns = MeiNs

\* the editor element of the i-th token, with the i-th ORCID token whatever it is
editor_el_any_orcid(editors, editor_orcids, i) ==
    LET e == AppendChild(El("editor"), SetText(El("persName"), Strip(editors[i])))
    IN  IF i <= Len(editor_orcids) THEN SetAttr(e, "orcid", Strip(editor_orcids[i])) ELSE e

\* the editor element of the i-th token, with the i-th ORCID when there is one
editor_el(editors, editor_orcids, i) ==
    LET persName_el == SetText(El("persName"), Strip(editors[i]))
        e == AppendChild(El("editor"), persName_el)
    IN  IF i <= Len(editor_orcids) /\ Strip(editor_orcids[i]) # <<>>
        THEN SetAttr(e, "orcid", Strip(editor_orcids[i])) ELSE e

\* editors_part taking the ORCID by the count of the editors made so far, not by
\* the position of the token
editors_part_counts_made(fd, R) ==
    LET editors == Split(Get(R, "Editor"), s_sep)
        editor_orcids == Split(Get(R, "Editor_ORCID"), s_sep)
        made == SelectSeq(editors, LAMBDA e : Strip(e) # <<>>)
        cleared == [fd EXCEPT !.kids = SelectSeq(@, LAMBDA k : ~IsEditor(k))]
        added == IF \E i \in 1..Len(editors) : editors[i] # <<>>
                 THEN [k \in 1..Len(made) |-> editor_el(made, editor_orcids, k)]
                 ELSE <<>>
    IN  IF \E i \in 1..Len(fd.kids) :
              \E j \in 1..Len(Descendants(fd.kids[i])) : IsEditor(Descendants(fd.kids[i])[j])
        THEN Raise("ValueError")
        ELSE Ok([cleared EXCEPT !.kids = @ \o added])

\* lines 194-214: fileDesc.remove(e) for every editor found below fileDesc raises
\* ValueError for one that is not a child of fileDesc; then one editor per token
\* that is not blank
editors_part(fd, R) ==
    LET editors == Split(Get(R, "Editor"), s_sep)
        editor_orcids == Split(Get(R, "Editor_ORCID"), s_sep)
        cleared == [fd EXCEPT !.kids = SelectSeq(@, LAMBDA k : ~IsEditor(k))]
        added == IF \E i \in 1..Len(editors) : editors[i] # <<>>
                 THEN Flatten([i \in 1..Len(editors) |->
                          IF Strip(editors[i]) # <<>>
                          THEN <<editor_el(editors, editor_orcids, i)>> ELSE <<>>])
                 ELSE <<>>
    IN  IF \E i \in 1..Len(fd.kids) :
              \E j \in 1..Len(Descendants(fd.kids[i])) : IsEditor(Descendants(fd.kids[i])[j])
        THEN Raise("ValueError")
        ELSE Ok([cleared EXCEPT !.kids = @ \o added])

WorkPath == <<"workDesc", "work">>

\* lines 232-333: workDesc of meiHead
work_desc(head, R) ==
    Then(Ensure(head, WorkPath), LAMBDA h1 :
    Then(UpsertText(At(h1, WorkPath), "title", Get(R, "Title")), LAMBDA w1 :
    Then(composer_part(w1, R, FALSE), LAMBDA w2 :
    Then(IF Get(R, "Piece_Date") # <<>>
         THEN Then(Ensure(w2, <<"creation">>), LAMBDA w :
                   Put(w, <<"creation">>,
                       UpsertDate(At(w, <<"creation">>), Get(R, "Piece_Date"))))
         ELSE Cut(w2, <<"creation">>), LAMBDA w3 :
    Then(Put(h1, WorkPath, UpsertText(w3, "genre", Get(R, "Genre"))), LAMBDA h2 :
    Then(Prune(h2, WorkPath), LAMBDA h3 :
    Prune(h3, <<"workDesc">>)))))))

SourceKeys == {"Source_Title", "Source_Date", "Source_Publisher_1", "Source_Publisher_2",
               "Permalink", "Source_Position", "Source_Location", "Source_Institution",
               "Source_Shelfmark", "Source_Reference"}

has_source_metadata(R) == \E k \in SourceKeys : Get(R, k) # <<>>

\* lines 405-454, one of the two publishers of the source's pubStmt: the lookup by
\* text comes first, when the field has a value and when it has none
source_publisher(ps, R, key, viaf, bnf) ==
    LET found == FindPublisherByText(ps, Strip(Get(R, key)))
        sameas_uris == Uris(R, viaf, bnf)
        publisher_el == SetText(El("publisher"), Strip(Get(R, key)))
    IN  IF ~found.ok THEN found
        ELSE IF Get(R, key) # <<>> /\ found.tree = NoTree
        THEN Ok(AppendChild(ps, IF sameas_uris # <<>>
                                THEN SetAttr(publisher_el, "sameas", Join(sameas_uris))
                                ELSE publisher_el))
        ELSE Ok(ps)

\* lines 462-473: the identifier of the source
identifier_part(source, R) ==
    Then(UpsertText(source, "identifier", Get(R, "Permalink")), LAMBDA s1 :
         IF Get(R, "Permalink") # <<>>
         THEN Put(s1, <<"identifier">>, SetAttr(At(s1, <<"identifier">>), "type", s_permalink))
         ELSE s1)

\* lines 489-536: the repository of the source
repository_part(source, R) ==
    IF \E k \in {"Source_Location", "Source_Institution", "Source_Shelfmark"} :
          Get(R, k) # <<>>
    THEN Then(Ensure(source, <<"repository">>), LAMBDA s1 :
         Then(UpsertText(At(s1, <<"repository">>),
                         "corpName", Get(R, "Source_Institution")), LAMBDA r1 :
         Then(UpsertText(r1, "geogName", Get(R, "Source_Location")), LAMBDA r2 :
         Then(UpsertText(r2, "shelfMark", Get(R, "Source_Shelfmark")), LAMBDA r3 :
         Prune(Put(s1, <<"repository">>, r3), <<"repository">>)))))
    ELSE Cut(source, <<"repository">>)

SourcePath == <<"sourceDesc", "source">>

\* lines 357-562: physDesc when the record has source metadata
source_part(pd, R) ==
    Then(Ensure(pd, SourcePath), LAMBDA p1 :
    Then(UpsertText(At(p1, SourcePath), "title", Get(R, "Source_Title")), LAMBDA s1 :
    Then(Ensure(UpsertDate(s1, Get(R, "Source_Date")), <<"pubStmt">>), LAMBDA s2 :
    Then(source_publisher(At(s2, <<"pubStmt">>), R, "Source_Publisher_1",
                          "Publisher_1_VIAF", "Publisher_1_BNF_ID"), LAMBDA pub1 :
    IF ~pub1.ok THEN pub1 ELSE
    Then(source_publisher(pub1.tree, R, "Source_Publisher_2",
                          "Publisher_2_VIAF", "Publisher_2_BNF_ID"), LAMBDA pub2 :
    IF ~pub2.ok THEN pub2 ELSE
    Then(Prune(Put(s2, <<"pubStmt">>, pub2.tree), <<"pubStmt">>), LAMBDA s3 :
    Then(UpsertText(identifier_part(s3, R), "locus", Get(R, "Source_Position")), LAMBDA s4 :
    Then(UpsertText(repository_part(s4, R), "notes", Get(R, "Source_Reference")), LAMBDA s5 :
    Then(Prune(Put(p1, SourcePath, s5), SourcePath), LAMBDA p2 :
    Ok(Prune(p2, <<"sourceDesc">>)))))))))))

\* lines 336-567: physDesc of fileDesc.  physDesc_el.find is called on what
\* fileDesc.find returned, None when fileDesc has no physDesc
phys_desc(fd, R) ==
    LET pi == Find(fd, "physDesc")
        src == source_part(fd.kids[pi], R)
    IN  IF pi = 0 THEN Raise("AttributeError")
        ELSE IF has_source_metadata(R)
        THEN IF ~src.ok THEN src
             ELSE Ok(IF src.tree.kids = <<>> THEN RemoveAt(fd, pi) ELSE SetKid(fd, pi, src.tree))
        ELSE Ok(RemoveAt(fd, pi))

\* apply_metadata from the parsed root to the tree it hands to tree.write
apply_metadata(root, R) ==
    Then(IF Find(root, "meiHead") = 0
         THEN [root EXCEPT !.kids = <<El("meiHead")>> \o @] ELSE root, LAMBDA r1 :
    Then(FindOrCreate(r1.kids[Find(r1, "meiHead")], "fileDesc"), LAMBDA h1 :
    Then(title_stmt(h1.kids[Find(h1, "fileDesc")], R), LAMBDA fd1 :
    Then(pub_stmt(fd1), LAMBDA fd2 :
    Then(editors_part(fd2, R), LAMBDA ed :
    IF ~ed.ok THEN ed ELSE
    Then(UpsertDate(ed.tree, Get(R, "Last_Revised")), LAMBDA fd3 :
    Then(work_desc(SetKid(h1, Find(h1, "fileDesc"), fd3), R), LAMBDA h2 :
    Then(phys_desc(h2.kids[Find(h2, "fileDesc")], R), LAMBDA ph :
    IF ~ph.ok THEN ph ELSE
    Then(IF ph.tree.kids = <<>> THEN RemoveAt(h2, Find(h2, "fileDesc"))
         ELSE SetKid(h2, Find(h2, "fileDesc"), ph.tree), LAMBDA h3 :
    Ok(IF h3.kids = <<>> THEN RemoveAt(r1, Find(r1, "meiHead"))
       ELSE SetKid(r1, Find(r1, "meiHead"), h3)))))))))))

\* the whole call: a missing record and a file that does not parse are printed
\* and the function returns without writing
Skipped == [ok |-> FALSE, err |-> "skipped", tree |-> NoTree]

NoRecord == "None" :> <<>>

apply_metadata_call(root, R) ==
    IF R = NoRecord \/ root = NoTree THEN Skipped ELSE apply_metadata(root, R)

-----------------------------------------------------------------------------
(* The headers and the records of the model *)

\* the namespace MEI files declare, which is not ns['mei']
FileNs == "http://www.music-encoding.org/ns/mei"

s_Old == <<"O", "l", "d">>
s_Ed == <<"E", "d">>
s_9 == <<"9">>

Leaf(name, text) == SetText(El(name), text)
Node(name, kids) == [El(name) EXCEPT !.kids = kids]

\* what a fileDesc may hold
HeaderParts == <<
    Node("titleStmt", <<Leaf("title", s_Old)>>),
    \* an editor where MEI has it, in titleStmt
    Node("titleStmt", <<Leaf("title", s_Old), Node("editor", <<Leaf("persName", s_Ed)>>)>>),
    Node("pubStmt", <<Node("availability", <<Node("useStmt",
        <<SetText(SetAttr(El("licence"), "target", s_cc_url), s_cc_text)>>)>>)>>),
    \* an editor as apply_metadata writes it, below fileDesc
    SetAttr(Node("editor", <<Leaf("persName", s_Old)>>), "orcid", s_9),
    SetAttr(Leaf("date", s_Old), "when", s_Old),
    El("physDesc"),
    Node("physDesc", <<Node("sourceDesc", <<Node("source",
        <<Leaf("title", s_Old), SetAttr(Leaf("date", s_Old), "when", s_Old)>>)>>)>>),
    \* a source with the publisher of an earlier record
    Node("physDesc", <<Node("sourceDesc", <<Node("source",
        <<Node("pubStmt", <<Leaf("publisher", s_Old)>>)>>)>>)>>),
    \* a composer with a role given by hand
    Node("titleStmt", <<Node("composer", <<SetAttr(Leaf("persName", s_Old), "role", s_Ed)>>)>>)
>>

\* how many of them one fileDesc holds at most
MaxHeaderParts == 2

RECURSIVE PartsOf(_, _)
PartsOf(F, i) ==
    IF i > Len(HeaderParts) THEN <<>>
    ELSE (IF i \in F THEN <<HeaderParts[i]>> ELSE <<>>) \o PartsOf(F, i + 1)

\* a work whose composer has a role given by hand
OldWorkDesc ==
    Node("workDesc", <<Node("work",
        <<Leaf("title", s_Old),
          Node("composer", <<SetAttr(Leaf("persName", s_Old), "role", s_Ed)>>),
          Leaf("genre", s_Old)>>)>>)

RECURSIVE InNs(_, _)
InNs(n, ns) == [n EXCEPT !.ns = ns, !.kids = [i \in 1..Len(n.kids) |-> InNs(n.kids[i], ns)]]

Music == El("music")

HeaderTrees ==
    LET full == {Node("mei", <<Node("meiHead", <<Node("fileDesc", PartsOf(F, 1))>> \o w), Music>>) :
                    F \in {G \in SUBSET (1..Len(HeaderParts)) : Cardinality(G) <= MaxHeaderParts},
                    w \in {<<>>, <<OldWorkDesc>>}}
    IN  full \cup {InNs(t, FileNs) : t \in full}
        \cup {Node("mei", <<Music>>), Node("mei", <<El("meiHead"), Music>>), NoTree}

\* field values a record may carry
RecordParts == <<
    "Title" :> <<"T">>,
    "Title" :> <<>>,
    "Composer_Name" :> <<"#", "2", "6", "5", " ", "B", "o", " ">>,
    "Composer_VIAF" :> <<"v">>,
    ("Composer_VIAF" :> <<"v">>) @@ ("Composer_BNF_ID" :> <<"b">>),
    "RDL_ID" :> <<"7">>,
    "Editor" :> <<"A", "n", " ", "|", " ", "B", "o">>,
    "Editor" :> <<" ", "A", "n", " ", "|", " ", " ", "|", " ", "B", "o">>,
    "Editor" :> <<" ">>,
    "Editor_ORCID" :> <<"1", " ", "|", " ", "2">>,
    "Editor_ORCID" :> <<" ", "|", " ", "2">>,
    "Editor_ORCID" :> <<"1", " ", "|", " ", " ", "|", " ", "2">>,
    "Last_Revised" :> <<"d">>,
    ("Piece_Date" :> <<"p">>) @@ ("Genre" :> <<"g">>),
    "Source_Title" :> <<"S">>,
    "Source_Publisher_1" :> <<"P">>
>>

\* how many of them one record is made of at most
MaxRecordParts == 2

RECURSIVE Merge(_, _)
Merge(P, i) ==
    IF i > Len(RecordParts) THEN NoAttrs
    ELSE IF i \in P THEN RecordParts[i] @@ Merge(P, i + 1) ELSE Merge(P, i + 1)

Records ==
    {Merge(P, 1) : P \in {Q \in SUBSET (1..Len(RecordParts)) :
        /\ Cardinality(Q) <= MaxRecordParts
        /\ \A i, j \in Q : i # j => DOMAIN RecordParts[i] \cap DOMAIN RecordParts[j] = {}}}
    \cup {NoRecord}

-----------------------------------------------------------------------------
(* One file reconciled with its record, and the file written reconciled with   *)
(* the same record once more                                                   *)

InitReconcile ==
    /\ htree \in HeaderTrees
    /\ record \in Records
    /\ res1 = Raise("") /\ res2 = Raise("")
    /\ outputs = <<>>
    /\ pcR = "start"
    /\ flags = [f \in FlagNames |-> "unset"]
    /\ IdleP /\ IdleD /\ IdleM /\ IdleW

\* tree.write(output_path, ...): an exception of the write is caught and printed
Written(res, writable) == IF res.ok /\ writable THEN <<res.tree>> ELSE <<>>

Reconcile ==
    /\ pcR = "start"
    /\ res1' = apply_metadata_call(htree, record)
    /\ \E writable \in BOOLEAN : outputs' = Written(res1', writable)
    /\ pcR' = "once"
    /\ UNCHANGED <<flags, htree, record, res2, varsP, varsD, varsM, varsW>>

ReconcileAgain ==
    /\ pcR = "once" /\ Len(outputs) = 1
    /\ res2' = apply_metadata_call(outputs[1], record)
    /\ \E writable \in BOOLEAN : outputs' = outputs \o Written(res2', writable)
    /\ pcR' = "twice"
    /\ UNCHANGED <<flags, htree, record, res1, varsP, varsD, varsM, varsW>>

NextReconcile == Reconcile \/ ReconcileAgain

SpecReconcile == InitReconcile /\ [][NextReconcile]_vars

-----------------------------------------------------------------------------
(* The batches of the metadata processors.  MEI_Metadata_Updater.process_files *)
(* of src/mei_metadata_processor.py takes the files of the source folder in    *)
(* sorted order, looks the record of each up by file name, rebuilds the        *)
(* meiHead from it and saves the soup; MEI_Definition_Processor.process_files  *)
(* of mei_tools/mei_definition_processor.py starts with                        *)
(* self.get_source_files(), a method the class does not have.                  *)

s_VIAF == <<"VIAF">>
s_editor == <<"editor">>
s_person == <<"p", "e", "r", "s", "o", "n">>
s_bar == <<"|">>
s_updater == <<"MEI Soup Updater 2025">>

\* str.lower() on the letters the model uses
Lower(c) ==
    CASE c = "P" -> "p"
      [] c = "E" -> "e"
      [] c = "R" -> "r"
      [] c = "S" -> "s"
      [] c = "O" -> "o"
      [] c = "N" -> "n"
      [] c = "A" -> "a"
      [] c = "B" -> "b"
      [] c = "T" -> "t"
      [] OTHER -> c

\* sub in s
Contains(s, sub) ==
    \E i \in 0..(Len(s) - Len(sub)) : SubSeq(s, i + 1, i + Len(sub)) = sub

\* tag = soup.new_tag(name); tag.string = text
StringTag(name, text) == Elem(name, NoAttrs, <<Txt(text)>>)

\* lines 108-111: the composer tag, which work.append(composer) of line 150 moves
\* from respStmt to work
composer_tag(R) ==
    Elem("composer", ("auth" :> s_VIAF) @@ ("auth.uri" :> Get(R, "Composer_VIAF")),
         <<Txt(Get(R, "Composer_Name"))>>)

\* lines 114-119: one persName per piece of Editor split at '|'
editor_tags(R) ==
    [i \in 1..Len(Split(Get(R, "Editor"), s_bar)) |->
        Elem("persName", "role" :> s_editor,
             <<Txt(Strip(Split(Get(R, "Editor"), s_bar)[i]))>>)]

\* lines 126-130: one persName or corpName per piece of Copyright_Owner
owner_tags(R) ==
    [i \in 1..Len(Split(Get(R, "Copyright_Owner"), s_bar)) |->
        StringTag(IF Contains([j \in 1..Len(Split(Get(R, "Copyright_Owner"), s_bar)[i]) |->
                                  Lower(Split(Get(R, "Copyright_Owner"), s_bar)[i][j])],
                              s_person)
                  THEN "persName" ELSE "corpName",
                  Strip(Split(Get(R, "Copyright_Owner"), s_bar)[i]))]

\* lines 83-104, 106-133: fileDesc
file_desc(R, now) ==
    Elem("fileDesc", NoAttrs, <<
        Elem("titleStmt", NoAttrs, <<StringTag("title", Get(R, "Title")),
                                     Elem("respStmt", NoAttrs, editor_tags(R))>>),
        Elem("pubStmt", NoAttrs, <<StringTag("publisher", Get(R, "Publisher")),
                                   Elem("distributor", NoAttrs, owner_tags(R)),
                                   StringTag("date", now),
                                   StringTag("availability", Get(R, "Rights_Statement"))>>)>>)

\* lines 135-142
app_info ==
    Elem("appInfo", NoAttrs,
         <<Elem("application", NoAttrs, <<StringTag("name", s_updater)>>)>>)

\* lines 144-152
work_list(R) ==
    Elem("workList", NoAttrs,
         <<Elem("work", NoAttrs, <<StringTag("title", Get(R, "Title")), composer_tag(R)>>)>>)

\* lines 154-197
manifestation_list(R) ==
    Elem("manifestationList", NoAttrs, <<Elem("manifestation", NoAttrs, <<
        StringTag("identifier", Get(R, "Source_Reference")),
        Elem("sourceDetails", NoAttrs, <<StringTag("title", Get(R, "Source_Title"))>>),
        Elem("pubStmt", NoAttrs, <<StringTag("publisher", Get(R, "Source_Publisher_1"))>>),
        StringTag("date", Get(R, "Source_Date")),
        Elem("repository", NoAttrs, <<
            StringTag("geogName", Get(R, "Source_Location")),
            StringTag("corpName", Get(R, "Source_Institution")),
            StringTag("identifier", Get(R, "Source_Shelfmark"))>>)>>)>>)

\* _apply_metadata_updates: every tag below the first meiHead is decomposed
\* (find_all(recursively=False) lists the descendant tags that have no attribute
\* called recursively), the text runs of meiHead stay, and the new children are
\* appended; mei_head.append of a soup without meiHead is None.append
apply_metadata_updates(t, R, now) ==
    IF Len(SoupFindAll(t, "meiHead")) = 0 THEN Raise("AttributeError")
    ELSE Ok(EditNthBelow(t, "meiHead", 1, "replace",
                [SoupFindAll(t, "meiHead")[1] EXCEPT !.kids =
                    SelectSeq(@, LAMBDA k : ~IsTag(k))
                    \o <<file_desc(R, now), app_info, work_list(R),
                         manifestation_list(R)>>]))

\* next((md for md in metadata_dict_list if md['MEI_Name'].strip() == file_name),
\* None): the position of the first record of that name, 0 for None, -1 when a
\* record without MEI_Name comes before it (KeyError)
RECURSIVE FirstMatch(_, _, _)
FirstMatch(mds, file_name, i) ==
    IF i > Len(mds) THEN 0
    ELSE IF "MEI_Name" \notin DOMAIN mds[i] THEN -1
    ELSE IF Strip(mds[i]["MEI_Name"]) = file_name THEN i
    ELSE FirstMatch(mds, file_name, i + 1)

\* the file names, the soups, the clock and the records of the model
MetaNames == <<<<"a">>, <<"b">>>>
s_T == <<"T">>
MetaDocs == {Elem("mei", NoAttrs, <<Elem("meiHead", NoAttrs,
                                         <<Txt(<<" ">>), StringTag("title", s_Old)>>),
                                    Elem("music", NoAttrs, <<>>)>>),
             Elem("mei", NoAttrs, <<Elem("music", NoAttrs, <<>>)>>)}
Clock == {<<"2025-01-01T00:00:00">>, <<"2025-01-01T00:00:01">>}
MetaRecords == {("MEI_Name" :> <<"a">>) @@ ("Title" :> s_T),
                ("MEI_Name" :> <<" ", "b", " ">>) @@ ("Editor" :> <<"A", "|", " ", "B">>),
                ("MEI_Name" :> <<"c">>) @@ ("Copyright_Owner" :> <<"A", " ", "P", "e", "r", "s", "o", "n">>),
                "Title" :> s_T}
MaxRecords == 2

MetaFiles(name) == {[name |-> name, tree |-> d, loadable |-> l, writable |-> w] :
                       d \in MetaDocs, l \in BOOLEAN, w \in BOOLEAN}

\* sorted(...) of get_source_files: the files in the order of their names
MetaFileLists ==
    {<<>>} \cup {<<f>> : f \in MetaFiles(MetaNames[1]) \cup MetaFiles(MetaNames[2])}
    \cup {<<f, g>> : f \in MetaFiles(MetaNames[1]), g \in MetaFiles(MetaNames[2])}

InitBatch ==
    /\ processor \in {"MEI_Metadata_Updater", "MEI_Definition_Processor"}
    /\ md_files \in MetaFileLists
    /\ metadata_dict_list \in SeqsUpTo(MetaRecords, MaxRecords)
    /\ md_idx = 1
    /\ md_soup = NoTree
    /\ md_results = <<>> /\ md_saved = <<>>
    /\ pcM = IF processor = "MEI_Definition_Processor" THEN "call"
             ELSE IF Len(md_files) = 0 THEN "done" ELSE "load"
    /\ flags = [f \in FlagNames |-> "unset"]
    /\ IdleP /\ IdleD /\ IdleR /\ IdleW

\* results[file_path] = f"error: {str(e)}" in the except clause, then the next file
MetaFailed ==
    /\ md_results' = (md_idx :> "error") @@ md_results
    /\ md_idx' = md_idx + 1
    /\ pcM' = IF md_idx + 1 > Len(md_files) THEN "done" ELSE "load"

\* self.soup = self.load_mei_file(file_path)
MetaLoad ==
    /\ processor = "MEI_Metadata_Updater" /\ pcM = "load"
    /\ IF md_files[md_idx].loadable
       THEN /\ md_soup' = md_files[md_idx].tree
            /\ pcM' = "match"
            /\ UNCHANGED <<md_idx, md_results>>
       ELSE /\ MetaFailed
            /\ UNCHANGED md_soup
    /\ UNCHANGED <<flags, processor, md_files, metadata_dict_list, md_saved,
                   varsP, varsD, varsR, varsW>>

\* the record is looked up (KeyError for a record without MEI_Name, ValueError
\* raised by line 54 when there is none) and _apply_metadata_updates is called
MetaUpdate ==
    /\ processor = "MEI_Metadata_Updater" /\ pcM = "match"
    /\ \E now \in Clock :
         IF FirstMatch(metadata_dict_list, md_files[md_idx].name, 1) > 0
            /\ apply_metadata_updates(md_soup,
                   metadata_dict_list[FirstMatch(metadata_dict_list,
                                                 md_files[md_idx].name, 1)], now).ok
         THEN /\ md_soup' = apply_metadata_updates(md_soup,
                     metadata_dict_list[FirstMatch(metadata_dict_list,
                                                   md_files[md_idx].name, 1)], now).tree
              /\ pcM' = "save"
              /\ UNCHANGED <<md_idx, md_results>>
         ELSE /\ MetaFailed
              /\ UNCHANGED md_soup
    /\ UNCHANGED <<flags, processor, md_files, metadata_dict_list, md_saved,
                   varsP, varsD, varsR, varsW>>

\* self.save_processed_file(self.soup, ...); results[file_path] = "success"
MetaSave ==
    /\ processor = "MEI_Metadata_Updater" /\ pcM = "save"
    /\ IF md_files[md_idx].writable
       THEN /\ md_saved' = (md_idx :> md_soup) @@ md_saved
            /\ md_results' = (md_idx :> "success") @@ md_results
            /\ md_idx' = md_idx + 1
            /\ pcM' = IF md_idx + 1 > Len(md_files) THEN "done" ELSE "load"
       ELSE /\ MetaFailed
            /\ UNCHANGED md_saved
    /\ UNCHANGED <<flags, processor, md_files, metadata_dict_list, md_soup,
                   varsP, varsD, varsR, varsW>>

\* MEI_Definition_Processor.process_files: self.get_source_files() raises
\* AttributeError, the except clause of line 60 prints it and raises it again
DefinitionProcessFiles ==
    /\ processor = "MEI_Definition_Processor" /\ pcM = "call"
    /\ pcM' = "raised"
    /\ UNCHANGED <<flags, processor, md_files, metadata_dict_list, md_idx, md_soup,
                   md_results, md_saved, varsP, varsD, varsR, varsW>>

NextBatch == MetaLoad \/ MetaUpdate \/ MetaSave \/ DefinitionProcessFiles

SpecBatch == InitBatch /\ [][NextBatch]_vars

-----------------------------------------------------------------------------
(* Two workers run the loop body of Music_Feature_Processor.process_files side *)
(* by side, each for one document.  A BeautifulSoup object is a cell of heap;  *)
(* self.soup of a processor object and the local processed_soup of a call are  *)
(* references to cells (0 for None).  The passes work on the object self.soup  *)
(* refers to and return that object.  A step is one statement of the loop      *)
(* body; the workers that share no object cannot meet inside a statement.      *)

Workers == {1, 2}

\* both workers call process_files of one processor object
ProcessorOf_same(w) == 1

\* the processor object worker w calls process_files of: __init__ gives every
\* object a soup attribute of its own
ProcessorOf(w) == IF shared THEN 1 ELSE w

InitWorkers ==
    /\ shared \in BOOLEAN
    /\ docs \in {<<d1, d2>> : d1 \in DriverDocs, d2 \in DriverDocs} \ {<<d, d>> : d \in DriverDocs}
    /\ wmodules \in SeqsUpTo(DriverNames, MaxModules)
    /\ heap = [w \in Workers |-> NoTree]
    /\ self_soup = [p \in Workers |-> 0]
    /\ processed = [w \in Workers |-> 0]
    /\ wIdx = [w \in Workers |-> 0]
    /\ wpc = [w \in Workers |-> "load"]
    /\ wresults = [w \in Workers |-> ""]
    /\ wsaved = [w \in Workers |-> NoTree]
    /\ touched = {}
    /\ steps = <<>>
    /\ flags = [f \in FlagNames |-> "unset"]
    /\ IdleP /\ IdleD /\ IdleR /\ IdleM

\* self.soup = self.load_mei_file(file_path); processed_soup = self.soup
WLoad(w) ==
    /\ wpc[w] = "load"
    /\ heap' = [heap EXCEPT ![w] = docs[w]]
    /\ self_soup' = [self_soup EXCEPT ![ProcessorOf(w)] = w]
    /\ processed' = [processed EXCEPT ![w] = w]
    /\ wIdx' = [wIdx EXCEPT ![w] = 1]
    /\ wpc' = [wpc EXCEPT ![w] = "modules"]
    /\ steps' = Append(steps, w)
    /\ UNCHANGED <<flags, shared, docs, wmodules, wresults, wsaved, touched,
                   varsP, varsD, varsR, varsM>>

\* processed_soup = module(): the pass reads and edits the object self.soup refers
\* to at the time of the call; a pass that raises ends the document with an error
WApply(w) ==
    /\ wpc[w] = "modules" /\ wIdx[w] <= Len(wmodules)
    /\ wmodules[wIdx[w]] \in Registry
    /\ touched' = touched \cup {<<w, self_soup[ProcessorOf(w)]>>}
    /\ IF CallModule(wmodules[wIdx[w]], heap[self_soup[ProcessorOf(w)]], flags, NoDraws).ok
       THEN /\ heap' = [heap EXCEPT ![self_soup[ProcessorOf(w)]] =
                    CallModule(wmodules[wIdx[w]], heap[self_soup[ProcessorOf(w)]],
                               flags, NoDraws).tree]
            /\ processed' = [processed EXCEPT ![w] = self_soup[ProcessorOf(w)]]
            /\ wIdx' = [wIdx EXCEPT ![w] = @ + 1]
            /\ UNCHANGED <<wpc, wresults>>
       ELSE /\ wresults' = [wresults EXCEPT ![w] = "error"]
            /\ wpc' = [wpc EXCEPT ![w] = "done"]
            /\ UNCHANGED <<heap, processed, wIdx>>
    /\ steps' = Append(steps, w)
    /\ UNCHANGED <<flags, shared, docs, wmodules, self_soup, wsaved,
                   varsP, varsD, varsR, varsM>>

\* a name that is not registered: a warning, continue
WSkip(w) ==
    /\ wpc[w] = "modules" /\ wIdx[w] <= Len(wmodules)
    /\ wmodules[wIdx[w]] \notin Registry
    /\ wIdx' = [wIdx EXCEPT ![w] = @ + 1]
    /\ steps' = Append(steps, w)
    /\ UNCHANGED <<flags, shared, docs, wmodules, heap, self_soup, processed, wpc,
                   wresults, wsaved, touched, varsP, varsD, varsR, varsM>>

\* self.save_processed_file(processed_soup, ...); results[file_path] = "success"
WSave(w) ==
    /\ wpc[w] = "modules" /\ wIdx[w] > Len(wmodules)
    /\ wsaved' = [wsaved EXCEPT ![w] = heap[processed[w]]]
    /\ wresults' = [wresults EXCEPT ![w] = "success"]
    /\ wpc' = [wpc EXCEPT ![w] = "done"]
    /\ steps' = Append(steps, w)
    /\ UNCHANGED <<flags, shared, docs, wmodules, heap, self_soup, processed, wIdx,
                   touched, varsP, varsD, varsR, varsM>>

NextWorkers == \E w \in Workers : WLoad(w) \/ WApply(w) \/ WSkip(w) \/ WSave(w)

SpecWorkers == InitWorkers /\ [][NextWorkers]_vars

-----------------------------------------------------------------------------
(* Claims about process_files (specification Spec) *)

Registered(names) == SelectSeq(names, LAMBDA m : m \in Registry)

\* the passes called names applied one after the other, each to the tree the one
\* before it returned; the first that raises ends it
RECURSIVE FoldPasses(_, _, _)
FoldPasses(t, names, fl) ==
    IF Len(names) = 0 THEN Ok(t)
    ELSE LET r == CallModule(Head(names), t, fl, NoDraws)
         IN  IF r.ok THEN FoldPasses(r.tree, Tail(names), fl) ELSE r

\* C1: for one document the registered passes named in modules_to_apply are applied
\* in the order of the list, each to the tree the previous one left: while the
\* loop runs, the passes applied so far are the registered names met so far, in
\* their order, and the tree is their left-to-right fold over the loaded tree; the
\* tree saved is the fold of all of them.
C1_FoldInListOrder ==
    /\ pcD = "modules" =>
          /\ applied = Registered(SubSeq(modules, 1, modIdx - 1))
          /\ FoldPasses(loaded, applied, flags) = Ok(soup)
          /\ processed_soup = soup
    /\ \A i \in DOMAIN saved :
          FoldPasses(files[i].tree, Registered(modules), flags) = Ok(saved[i])

\* two different passes have run, and in the other order they give another tree
C1_Witness ==
    /\ pcD = "modules" /\ Len(applied) = 2 /\ applied[1] # applied[2]
    /\ FoldPasses(loaded, <<applied[2], applied[1]>>, flags) # Ok(soup)
    /\ FoldPasses(loaded, <<applied[2], applied[1]>>, flags).ok

\* C2: a name that is not registered is skipped with a warning and is no error: a
\* document that loads, whose registered passes succeed and whose output can be
\* written ends with status success and with the fold of the registered passes
\* saved, and each unknown name met was warned about.
C2_UnknownNameSkipped ==
    \A i \in 1..Len(files) :
        (i < idx /\ files[i].loadable /\ files[i].writable
         /\ FoldPasses(files[i].tree, Registered(modules), flags).ok) =>
            /\ i \in DOMAIN results /\ results[i] = "success"
            /\ i \in DOMAIN saved
            /\ Ok(saved[i]) = FoldPasses(files[i].tree, Registered(modules), flags)
            /\ SelectSeq(warned, LAMBDA w : w[1] = i)
                   = [k \in 1..Len(SelectSeq(modules, LAMBDA m : m \notin Registry)) |->
                         <<i, SelectSeq(modules, LAMBDA m : m \notin Registry)[k]>>]

\* an unknown name came before a registered pass, which then changed the tree
C2_Witness ==
    /\ pcD = "done" /\ Len(modules) = 2
    /\ modules[1] \notin Registry /\ modules[2] \in Registry
    /\ 1 \in DOMAIN saved /\ results[1] = "success" /\ saved[1] # files[1].tree

\* what the report must say of a file
ExpectedStatus(f) ==
    IF f.loadable /\ f.writable /\ FoldPasses(f.tree, Registered(modules), flags).ok
    THEN "success" ELSE "error"

\* C3: a failure while loading, transforming or saving one document becomes that
\* document's error status and does not end the batch: the batch ends only past
\* the last file, and the report then holds one entry for every file, error for
\* the ones that failed and success for the others.
C3_BatchNeverAborts ==
    /\ pcD = "done" => idx = Len(files) + 1
    /\ DOMAIN results = 1..(idx - 1)
    /\ \A i \in DOMAIN results : results[i] = ExpectedStatus(files[i])

\* the first document failed in a pass and the second was processed and saved
C3_Witness ==
    /\ pcD = "done" /\ Len(files) = 2
    /\ files[1].loadable /\ files[1].writable /\ results[1] = "error"
    /\ results[2] = "success" /\ 2 \in DOMAIN saved

-----------------------------------------------------------------------------
(* Claims about single passes *)

\* no verse of t has more than two syl below it, and none lies in another verse
PlainVerses(t) ==
    /\ \A i \in 1..Len(SoupFindAll(t, "verse")) :
          Len(FindAll(SoupFindAll(t, "verse")[i], "syl")) <= 2
    /\ ~NestedVerse(t)

MeasureNumbers(t) ==
    [i \in 1..Len(SoupFindAll(t, "measure")) |-> SoupFindAll(t, "measure")[i].attrs["n"]]

\* the measures of t are an incipit (label 0) and three more: numbered 0, 1, 2, 3,
\* or, as _remove_incipit looks for the incipit, 1, 2, 3, 4
IncipitScenario(t) ==
    LET ms == SoupFindAll(t, "measure")
    IN  /\ Len(ms) = 4
        /\ HasAttr(ms[1], "label") /\ ms[1].attrs["label"] = s_0
        /\ \A i \in 1..4 : HasAttr(ms[i], "n")
        /\ MeasureNumbers(t) \in {<<s_0, s_1, s_2, s_3>>, <<s_1, s_2, s_3, s_4>>}

\* C9 as stated: remove_incipit applied once to an incipit followed by three
\* measures deletes the incipit and leaves the three measures numbered 1, 2, 3.
C9_IncipitRemoved ==
    (pcP # "start" /\ pass = "remove_incipit" /\ IncipitScenario(input))
    => /\ out1.ok
       /\ CountIn(out1.tree, "measure") = 3
       /\ \A i \in 1..Len(SoupFindAll(out1.tree, "measure")) :
             SoupFindAll(out1.tree, "measure")[i].attrs["label"] # s_0
       /\ MeasureNumbers(out1.tree) = <<s_1, s_2, s_3>>

\* the tree with each app replaced, where it stands, by the notes of its lem
RECURSIVE PromoteInPlace(_)
PromoteInPlace(n) ==
    [n EXCEPT !.kids = Flatten([i \in 1..Len(n.kids) |->
        IF n.kids[i].name = "app" THEN lem_notes(n.kids[i])
        ELSE <<PromoteInPlace(n.kids[i])>>])]

\* C10 as stated: remove_variants puts the notes of each app's lem where the app
\* stood, and leaves no app and no rdg.
C10_PromotedInPlace ==
    (pcP # "start" /\ pass = "remove_variants" /\ out1.ok)
    => /\ CountIn(out1.tree, "app") = 0
       /\ CountIn(out1.tree, "rdg") = 0
       /\ out1.tree = PromoteInPlace(input)

-----------------------------------------------------------------------------
(* Claims about the header reconciliation (specification SpecReconcile) *)

\* a file that parsed, with a record
Reconciled == pcR # "start" /\ htree # NoTree /\ record # NoRecord

\* C5 as stated: reconciling the tree that reconcile(T, R) gave with R again gives
\* the same tree.
C5_ReconcileIdempotent ==
    pcR = "twice" => (res2.ok /\ res2.tree = res1.tree)

\* C6 as stated: reconcile completes and returns a tree for every parsed tree and
\* every record.
C6_ReconcileTotal ==
    Reconciled => res1.ok

\* where the header has the element of a field
FieldPaths(k) ==
    CASE k = "Title" -> {<<"meiHead", "fileDesc", "titleStmt", "title">>,
                         <<"meiHead", "workDesc", "work", "title">>}
      [] k = "Composer_Name" -> {<<"meiHead", "fileDesc", "titleStmt", "composer">>,
                                 <<"meiHead", "workDesc", "work", "composer">>}
      [] k = "Last_Revised" -> {<<"meiHead", "fileDesc", "date">>}
      [] k = "Piece_Date" -> {<<"meiHead", "workDesc", "work", "creation">>}
      [] k = "Genre" -> {<<"meiHead", "workDesc", "work", "genre">>}
      [] k = "Source_Title" ->
            {<<"meiHead", "fileDesc", "physDesc", "sourceDesc", "source", "title">>}
      [] k = "Source_Date" ->
            {<<"meiHead", "fileDesc", "physDesc", "sourceDesc", "source", "date">>}

FieldKeys == {"Title", "Composer_Name", "Last_Revised", "Piece_Date", "Genre",
              "Source_Title", "Source_Date"}

\* the containers that go when they are left without child elements
PrunedContainers == {"titleStmt", "work", "workDesc", "repository", "pubStmt", "source",
                     "sourceDesc", "physDesc"}

\* the element of every field without value is gone, and no container is left empty
FieldsRemoved(t, R) ==
    /\ \A k \in FieldKeys : Get(R, k) = <<>> => \A path \in FieldPaths(k) : At(t, path) = NoTree
    /\ \A i \in 1..Len(Descendants(t)) :
          (Descendants(t)[i].ns = MeiNs /\ Descendants(t)[i].name \in PrunedContainers)
          => Descendants(t)[i].kids # <<>>

\* C7 as stated: after reconcile(T, R) the element of every field that is empty or
\* absent in R is absent, and so is every container left without child elements.
C7_EmptyFieldsRemoved ==
    Reconciled => (res1.ok /\ FieldsRemoved(res1.tree, record))

\* the names of the editor entries of the header, in document order
EditorEntries(t) ==
    LET es == SelectSeq(Descendants(t), IsEditor)
    IN  [i \in 1..Len(es) |-> IF Find(es[i], "persName") = 0 THEN <<>>
                              ELSE es[i].kids[Find(es[i], "persName")].text]

\* the trimmed tokens of the Editor value that are not empty, in input order
EditorTokens(R) ==
    LET tokens == Split(Get(R, "Editor"), s_sep)
    IN  SelectSeq([i \in 1..Len(tokens) |-> Strip(tokens[i])], LAMBDA tok : tok # <<>>)

\* C8 as stated: after reconcile(T, R) the header holds one editor entry per
\* non-empty trimmed token of R's Editor value, in input order, and none of the
\* editor entries the tree had before.
C8_EditorsReplaced ==
    Reconciled => (res1.ok /\ EditorEntries(res1.tree) = EditorTokens(record))

-----------------------------------------------------------------------------
(* More claims about single passes (specification SpecPass) *)

\* the syl children of a verse
SylChildren(v) == SelectSeq(v.kids, LAMBDA k : k.name = "syl")

\* C11: fix_elisions leaves, in a verse with exactly two syl children that both have
\* a text, one syl whose text is the two texts joined by "_", with con 'd' and
\* wordpos 'm'; a verse with no or one syl is unchanged.
C11_ElisionMerged ==
    (pcP # "start" /\ pass = "fix_elisions")
    => /\ out1.ok
       /\ Len(SoupFindAll(out1.tree, "verse")) = Len(SoupFindAll(input, "verse"))
       /\ \A i \in 1..Len(SoupFindAll(input, "verse")) :
            LET v == SoupFindAll(input, "verse")[i]
                w == SoupFindAll(out1.tree, "verse")[i]
            IN  /\ (/\ Len(SylChildren(v)) = 2
                    /\ GetText(SylChildren(v)[1]) # <<>>
                    /\ GetText(SylChildren(v)[2]) # <<>>)
                   => /\ Len(SylChildren(w)) = 1
                      /\ Len(FindAll(w, "syl")) = 1
                      /\ GetText(SylChildren(w)[1])
                           = GetText(SylChildren(v)[1]) \o <<"_">> \o GetText(SylChildren(v)[2])
                      /\ HasAttr(SylChildren(w)[1], "con")
                      /\ SylChildren(w)[1].attrs["con"] = s_d
                      /\ HasAttr(SylChildren(w)[1], "wordpos")
                      /\ SylChildren(w)[1].attrs["wordpos"] = s_m
                /\ Len(FindAll(v, "syl")) <= 1 => w = v

\* fix_elisions has run on a document with a verse of the two syllables con and fi
\* and with a verse of one syllable
C11_Witness ==
    /\ pcP # "start" /\ pass = "fix_elisions" /\ out1.ok
    /\ \E i \in 1..Len(SoupFindAll(input, "verse")) :
          /\ Len(SylChildren(SoupFindAll(input, "verse")[i])) = 2
          /\ GetText(SoupFindAll(input, "verse")[i]) = s_con \o s_fi
          /\ GetText(SoupFindAll(out1.tree, "verse")[i]) = s_con \o <<"_">> \o s_fi
    /\ \E i \in 1..Len(SoupFindAll(input, "verse")) :
          Len(SylChildren(SoupFindAll(input, "verse")[i])) = 1

\* the document has none of the elements the pass is about
LacksTargets(p, t) ==
    CASE p = "fix_elisions" ->
            \A i \in 1..Len(SoupFindAll(t, "verse")) :
                Len(FindAll(SoupFindAll(t, "verse")[i], "syl")) <= 1
      [] p = "slur_to_tie" -> CountIn(t, "slur") = 0
      [] p = "remove_incipit" ->
            \A i \in 1..Len(SoupFindAll(t, "measure")) :
                ~(HasAttr(SoupFindAll(t, "measure")[i], "label")
                  /\ SoupFindAll(t, "measure")[i].attrs["label"] = s_0)
      [] p = "remove_tstamp_vel" ->
            CountIn(t, "note") + CountIn(t, "rest") + CountIn(t, "mRest") + CountIn(t, "tie") = 0
      [] p = "remove_senfl_bracket" -> CountIn(t, "bracket") = 0
      [] p \in {"remove_empty_verse", "remove_empty_verses"} -> CountIn(t, "empty_verse") = 0
      [] p = "remove_lyrics" -> CountIn(t, "verse") = 0
      [] p = "collapse_layers" -> CountIn(t, "staff") = 0
      [] p = "remove_chords" -> CountIn(t, "chord") = 0
      [] p = "ficta_to_supplied" ->
            \A i \in 1..Len(SoupFindAll(t, "note")) : ~HasAttr(SoupFindAll(t, "note")[i], "color")
      [] p = "add_voice_labels" -> CountIn(t, "staffDef") = 0
      [] p = "remove_variants" -> CountIn(t, "app") = 0
      [] p = "remove_anchored_text" -> CountIn(t, "anchoredText") = 0

\* C12 as stated: a pass applied to a document without its target elements does
\* not raise and returns the tree unchanged.
C12_NoTargetsNoOp ==
    (pcP # "start" /\ LacksTargets(pass, input)) => (out1.ok /\ out1.tree = input)

-----------------------------------------------------------------------------
(* More claims about the header reconciliation (specification SpecReconcile) *)

\* the root has a meiHead and that meiHead has a fileDesc
HasPermanentAncestors(t) ==
    /\ Find(t, "meiHead") # 0
    /\ Find(t.kids[Find(t, "meiHead")], "fileDesc") # 0

\* C13: after a reconcile that completes, whatever the tree and the record, the
\* root has a meiHead child and that meiHead has a fileDesc child.
C13_PermanentAncestorsKept ==
    /\ (pcR # "start" /\ res1.ok) => HasPermanentAncestors(res1.tree)
    /\ (pcR = "twice" /\ res2.ok) => HasPermanentAncestors(res2.tree)

\* a reconcile with the record of no field has completed
C13_Witness ==
    pcR # "start" /\ res1.ok /\ record = NoAttrs /\ HasPermanentAncestors(res1.tree)

HeaderContainers == {"meiHead", "fileDesc", "titleStmt", "pubStmt", "physDesc", "workDesc",
                     "work", "sourceDesc", "source"}

\* no element has two children that are the same header container
SingleChildren(n) ==
    \A c \in HeaderContainers :
        Cardinality({i \in 1..Len(n.kids) : n.kids[i].name = c}) <= 1

RECURSIVE AtMostOneOfEach(_)
AtMostOneOfEach(t) ==
    /\ SingleChildren(t)
    /\ \A i \in 1..Len(t.kids) : AtMostOneOfEach(t.kids[i])

\* C14: a reconcile of a tree with at most one of each header container under the
\* same parent returns a tree with at most one of each, and so does the reconcile
\* of that tree once more.
C14_NoDuplicateContainer ==
    /\ (pcR # "start" /\ res1.ok /\ AtMostOneOfEach(htree)) => AtMostOneOfEach(res1.tree)
    /\ (pcR = "twice" /\ res2.ok /\ AtMostOneOfEach(res1.tree)) => AtMostOneOfEach(res2.tree)

\* a header without titleStmt, pubStmt and workDesc was reconciled with a record
\* that has a title, and the result has the three containers
C14_Witness ==
    /\ pcR # "start" /\ res1.ok /\ AtMostOneOfEach(htree)
    /\ At(htree, <<"meiHead", "fileDesc", "titleStmt">>) = NoTree
    /\ At(htree, <<"meiHead", "fileDesc", "pubStmt">>) = NoTree
    /\ At(htree, <<"meiHead", "workDesc">>) = NoTree
    /\ At(res1.tree, <<"meiHead", "fileDesc", "titleStmt">>) # NoTree
    /\ At(res1.tree, <<"meiHead", "fileDesc", "pubStmt">>) # NoTree
    /\ At(res1.tree, <<"meiHead", "workDesc", "work">>) # NoTree

CrossRefs == {"sameas", "assoc", "orcid"}

\* how many elements of t carry attribute a
RECURSIVE Carrying(_, _)
Carrying(n, a) ==
    LET below == [i \in 1..Len(n.kids) |-> Carrying(n.kids[i], a)]
        Sum[i \in 0..Len(n.kids)] == IF i = 0 THEN 0 ELSE Sum[i - 1] + below[i]
    IN  (IF HasAttr(n, a) THEN 1 ELSE 0) + Sum[Len(n.kids)]

\* no element of t has one of the attributes with the empty string as its value
RECURSIVE NoEmptyCrossRef(_)
NoEmptyCrossRef(n) ==
    /\ \A a \in CrossRefs \cap DOMAIN n.attrs : n.attrs[a] # <<>>
    /\ \A i \in 1..Len(n.kids) : NoEmptyCrossRef(n.kids[i])

\* the record has no ORCID that is not blank
NoOrcid(R) ==
    \A j \in 1..Len(Split(Get(R, "Editor_ORCID"), s_sep)) :
        Strip(Split(Get(R, "Editor_ORCID"), s_sep)[j]) = <<>>

\* C15: after a reconcile that completes no element has a sameas, assoc or orcid
\* attribute that is the empty string, and an attribute whose values in the record
\* are all empty is on no element.
C15_CrossRefsNeverEmpty ==
    (pcR # "start" /\ res1.ok) =>
        /\ NoEmptyCrossRef(res1.tree)
        /\ Uris(record, "Composer_VIAF", "Composer_BNF_ID") = <<>>
               => Carrying(res1.tree, "sameas") = 0
        /\ Get(record, "RDL_ID") = <<>> => Carrying(res1.tree, "assoc") = 0
        /\ NoOrcid(record) => Carrying(res1.tree, "orcid") = 0

\* the record has two editors and an ORCID for the second only: the result has an
\* editor with orcid and one without
C15_Witness ==
    /\ pcR # "start" /\ res1.ok
    /\ Len(Split(Get(record, "Editor_ORCID"), s_sep)) = 2
    /\ Split(Get(record, "Editor_ORCID"), s_sep)[1] = <<>>
    /\ Carrying(res1.tree, "orcid") = 1
    /\ Len(EditorEntries(res1.tree)) = 2

-----------------------------------------------------------------------------
(* More claims about process_files (specification Spec) *)

AppWithoutLem(t) ==
    \E i \in 1..Len(SoupFindAll(t, "app")) : Len(FindAll(SoupFindAll(t, "app")[i], "lem")) = 0

\* the names before the first remove_variants
RECURSIVE BeforeVariants(_)
BeforeVariants(names) ==
    IF names = <<>> \/ Head(names) = "remove_variants" THEN <<>>
    ELSE <<Head(names)>> \o BeforeVariants(Tail(names))

\* file f reaches remove_variants with an app that has no lem
MeetsBareApp(f) ==
    /\ f.loadable
    /\ \E k \in 1..Len(modules) : modules[k] = "remove_variants"
    /\ FoldPasses(f.tree, BeforeVariants(Registered(modules)), flags).ok
    /\ AppWithoutLem(FoldPasses(f.tree, BeforeVariants(Registered(modules)), flags).tree)

\* C18: remove_variants raises on a document with an app without lem; the document
\* gets the error status and nothing is saved for it, every other document has the
\* status it has on its own, and the batch reports on every document.
C18_BareAppFailsItsDocumentOnly ==
    /\ \A i \in 1..Len(files) :
          (i < idx /\ MeetsBareApp(files[i])) =>
              /\ ~remove_variants(FoldPasses(files[i].tree,
                                    BeforeVariants(Registered(modules)), flags).tree).ok
              /\ i \in DOMAIN results /\ results[i] = "error"
              /\ i \notin DOMAIN saved
              /\ \A j \in 1..Len(files) :
                    (j # i /\ j < idx) =>
                        j \in DOMAIN results /\ results[j] = ExpectedStatus(files[j])
    /\ pcD = "done" => DOMAIN results = 1..Len(files)

\* the first document had the app without lem, the second was processed and saved
C18_Witness ==
    /\ pcD = "done" /\ Len(files) = 2
    /\ MeetsBareApp(files[1]) /\ results[1] = "error"
    /\ results[2] = "success" /\ 2 \in DOMAIN saved /\ saved[2] # files[2].tree

-----------------------------------------------------------------------------
(* Claims about the source of the header (specification SpecReconcile) *)

SourcePubStmt == <<"meiHead", "fileDesc", "physDesc", "sourceDesc", "source", "pubStmt">>

\* the texts of the publisher elements of the source's pubStmt, in document order
SourcePublishers(t) ==
    IF At(t, SourcePubStmt) = NoTree THEN <<>>
    ELSE LET ps == SelectSeq(At(t, SourcePubStmt).kids,
                             LAMBDA k : k.name = "publisher" /\ k.ns = MeiNs)
         IN  [i \in 1..Len(ps) |-> ps[i].text]

\* the values of Source_Publisher_1 and Source_Publisher_2 that are not empty
RecordPublishers(R) ==
    SelectSeq(<<Strip(Get(R, "Source_Publisher_1")), Strip(Get(R, "Source_Publisher_2"))>>,
              LAMBDA v : v # <<>>)

\* C19 as stated: after reconciling a tree whose source already has publisher
\* elements, the source's pubStmt holds publisher elements for the record's
\* non-empty Source_Publisher_1 and Source_Publisher_2 only.
C19_SourcePublishersReplaced ==
    (Reconciled /\ SourcePublishers(htree) # <<>>)
        => (res1.ok /\ SourcePublishers(res1.tree) = RecordPublishers(record))

-----------------------------------------------------------------------------
(* Claims about the deleting passes (specification SpecPass) *)

\* the kind of element a deleting pass is to delete
DeletedKind(p) ==
    CASE p = "remove_lyrics" -> "verse"
      [] p = "remove_chords" -> "chord"
      [] p = "remove_senfl_bracket" -> "bracket"

\* C20 as stated: for every input tree, after remove_lyrics the tree has no verse,
\* after remove_chords no chord, after remove_senfl_bracket no line of type bracket.
C20_EveryTargetDeleted ==
    (pcP # "start" /\ pass \in {"remove_lyrics", "remove_chords", "remove_senfl_bracket"})
        => (out1.ok /\ CountIn(out1.tree, DeletedKind(pass)) = 0)

-----------------------------------------------------------------------------
(* Claims about the batches of the metadata processors (specification          *)
(* SpecBatch)                                                                  *)

\* file i of the batch: no record of the list carries its name
Unmatched(i) ==
    \A k \in 1..Len(metadata_dict_list) :
        /\ "MEI_Name" \in DOMAIN metadata_dict_list[k]
        /\ Strip(metadata_dict_list[k]["MEI_Name"]) # md_files[i].name

\* C16 as stated: a document that loads and for which no record matches its file
\* name is not written, has a status that is neither success nor error, and the
\* batch reports on every document.
C16_UnmatchedIsNoError ==
    pcM \notin {"idle", "call"} =>
       /\ \A i \in 1..Len(md_files) :
             (i < md_idx /\ md_files[i].loadable /\ Unmatched(i)) =>
                 /\ i \notin DOMAIN md_saved
                 /\ i \in DOMAIN md_results
                 /\ md_results[i] \notin {"success", "error"}
       /\ pcM \in {"load", "match", "save", "done"}
       /\ pcM = "done" => DOMAIN md_results = 1..Len(md_files)

-----------------------------------------------------------------------------
(* Claims about documents processed side by side (specification SpecWorkers)   *)

\* what process_files gives for the document of worker w when it runs alone
Sequential(w) == FoldPasses(docs[w], Registered(wmodules), flags)

\* no pass called for w's document has worked on another tree, and w ends as it
\* ends alone
SafeFor(w) ==
    /\ \A t \in touched : t[1] = w => t[2] = w
    /\ wpc[w] = "done" =>
          IF Sequential(w).ok
          THEN wresults[w] = "success" /\ wsaved[w] = Sequential(w).tree
          ELSE wresults[w] = "error" /\ wsaved[w] = NoTree

\* C17 as stated: under every interleaving of two workers with two different
\* documents no pass called for one document reads or edits the tree of the other,
\* and what is saved for each document is its sequential result.
C17_ParallelSafe ==
    wpc # <<>> => \A w \in Workers : SafeFor(w)

\* C17, amended: it holds when each worker has a processor object of its own.
C17_SafeWithOwnProcessors ==
    (wpc # <<>> /\ ~shared) => \A w \in Workers : SafeFor(w)

\* two workers with their own processors took turns, and both saved a tree that
\* their passes had changed
C17_Witness ==
    /\ wpc # <<>> /\ ~shared
    /\ \A w \in Workers : wpc[w] = "done" /\ wresults[w] = "success" /\ wsaved[w] # docs[w]
    /\ \E i, j, k \in 1..Len(steps) :
          i < j /\ j < k /\ steps[i] = 1 /\ steps[j] = 2 /\ steps[k] = 1

-----------------------------------------------------------------------------
(* Claims about the passes, continued (specification SpecPass) *)

\* C21 as stated: remove_empty_verse and remove_empty_verses each return the tree
\* without its verses that have no child element, every other element as it was.
C21_EmptyVersePassesAgree ==
    (pcP # "start" /\ pass \in {"remove_empty_verse", "remove_empty_verses"})
        => (out1.ok /\ out1.tree = DeleteKind(input, "empty_verse"))

\* the layer children of a staff
LayerChildren(staff) == SelectSeq(staff.kids, LAMBDA k : k.name = "layer")

\* what the one layer is to hold: the content of layer 1, then the content of the
\* other layers in document order
CollapsedContent(staff) ==
    Flatten([i \in 1..Len(SelectSeq(LayerChildren(staff), LAMBDA l : Matches("layer_1", l))) |->
                SelectSeq(LayerChildren(staff), LAMBDA l : Matches("layer_1", l))[i].kids])
    \o Flatten([i \in 1..Len(SelectSeq(LayerChildren(staff), LAMBDA l : ~Matches("layer_1", l))) |->
                SelectSeq(LayerChildren(staff), LAMBDA l : ~Matches("layer_1", l))[i].kids])

\* staff out is staff in collapsed
Collapsed(in, out) ==
    /\ Len(LayerChildren(out)) = 1
    /\ Matches("layer_1", LayerChildren(out)[1])
    /\ LayerChildren(out)[1].kids = CollapsedContent(in)

Collapsible(staff) ==
    /\ HasAttr(staff, "n") /\ IsDigits(staff.attrs["n"])
    /\ \E j \in 1..Len(LayerChildren(staff)) : Matches("layer_1", LayerChildren(staff)[j])

XmlIds(t) ==
    LET withId == SelectSeq(<<t>> \o Descendants(t), LAMBDA d : HasAttr(d, "xml:id"))
    IN  [i \in 1..Len(withId) |-> withId[i].attrs["xml:id"]]

\* C23 as stated: after one application of ficta_to_supplied no two elements of
\* the document carry the same xml:id.
C23_GeneratedIdsUnique ==
    (pcP # "start" /\ pass = "ficta_to_supplied" /\ out1.ok) =>
        \A i, j \in 1..Len(XmlIds(out1.tree)) :
            i # j => XmlIds(out1.tree)[i] # XmlIds(out1.tree)[j]

\* the accidental an accid element stands for
OriginalAccid(a) ==
    IF HasAttr(a, "accid.ges") THEN a.attrs["accid.ges"] ELSE a.attrs["accid"]

\* new is the supplied element that takes the place of accid element old
IsSuppliedFor(new, old) ==
    /\ new.name = "supplied"
    /\ DOMAIN new.attrs = {"reason", "xml:id"} /\ new.attrs["reason"] = s_edit
    /\ Len(new.kids) = 1 /\ new.kids[1].name = "accid"
    /\ DOMAIN new.kids[1].attrs = {"accid", "func", "place", "xml:id"}
    /\ new.kids[1].attrs["accid"] = OriginalAccid(old)
    /\ new.kids[1].attrs["func"] = s_edit
    /\ new.kids[1].attrs["place"] = s_above

\* the position of the first accid child of a note, 0 when it has none
FirstAccid(note) ==
    IF \E k \in 1..Len(note.kids) : note.kids[k].name = "accid"
    THEN CHOOSE k \in 1..Len(note.kids) :
            /\ note.kids[k].name = "accid"
            /\ \A h \in 1..(k - 1) : note.kids[h].name # "accid"
    ELSE 0

\* note out is note in converted: the color is gone, the first accid is replaced
\* where it stood, everything else is as it was
ConvertedNote(in, out) ==
    /\ out.name = "note"
    /\ out.attrs = DelAttrs(in, {"color"}).attrs
    /\ Len(out.kids) = Len(in.kids)
    /\ \A k \in 1..Len(in.kids) :
          IF k = FirstAccid(in) THEN IsSuppliedFor(out.kids[k], in.kids[k])
          ELSE out.kids[k] = in.kids[k]

\* C24: ficta_to_supplied converts the notes that have a color attribute and an
\* accid child and leaves every other note as it was.
C24_FictaConverted ==
    (pcP # "start" /\ pass = "ficta_to_supplied") =>
        /\ out1.ok
        /\ Len(SoupFindAll(out1.tree, "note")) = Len(SoupFindAll(input, "note"))
        /\ \A i \in 1..Len(SoupFindAll(input, "note")) :
              IF HasAttr(SoupFindAll(input, "note")[i], "color")
                 /\ FirstAccid(SoupFindAll(input, "note")[i]) # 0
              THEN ConvertedNote(SoupFindAll(input, "note")[i],
                                 SoupFindAll(out1.tree, "note")[i])
              ELSE SoupFindAll(out1.tree, "note")[i] = SoupFindAll(input, "note")[i]

\* a colored note with a gestural accid, one with a written accid and one without
\* accid went through the pass, together with a note without color
C24_Witness ==
    /\ pcP # "start" /\ pass = "ficta_to_supplied" /\ out1.ok
    /\ CountIn(out1.tree, "supplied") = 2
    /\ \E i \in 1..Len(SoupFindAll(out1.tree, "note")) :
          HasAttr(SoupFindAll(out1.tree, "note")[i], "color")
    /\ \E i \in 1..Len(SoupFindAll(input, "note")) :
          ~HasAttr(SoupFindAll(input, "note")[i], "color")

\* verse w is verse v with its first two syllables merged and the rest as it was
FirstPairMerged(v, w) ==
    /\ Len(SylChildren(w)) = Len(SylChildren(v)) - 1
    /\ GetText(SylChildren(w)[1])
          = GetText(SylChildren(v)[1]) \o <<"_">> \o GetText(SylChildren(v)[2])
    /\ \A k \in 3..Len(SylChildren(v)) : SylChildren(w)[k - 1] = SylChildren(v)[k]

\* C25 as stated: for a verse with more than two syl elements one application of
\* fix_elisions merges the first pair only: one syl fewer, the third and later syl
\* elements as they were and in their order.
C25_OnlyFirstPairMerged ==
    (pcP # "start" /\ pass = "fix_elisions") =>
        /\ out1.ok
        /\ Len(SoupFindAll(out1.tree, "verse")) = Len(SoupFindAll(input, "verse"))
        /\ \A i \in 1..Len(SoupFindAll(input, "verse")) :
              Len(SylChildren(SoupFindAll(input, "verse")[i])) > 2
              => FirstPairMerged(SoupFindAll(input, "verse")[i],
                                 SoupFindAll(out1.tree, "verse")[i])

\* the first two syllables both have text
PairHasText(v) ==
    /\ HasString(SylChildren(v)[1]) /\ StringOf(SylChildren(v)[1]) # <<>>
    /\ HasString(SylChildren(v)[2]) /\ StringOf(SylChildren(v)[2]) # <<>>

\* C25, amended: that holds for the verses whose first two syl elements have text;
\* a verse where one of the two has none is left as it was.
C25_FirstPairWithTextMerged ==
    (pcP # "start" /\ pass = "fix_elisions") =>
        /\ out1.ok
        /\ Len(SoupFindAll(out1.tree, "verse")) = Len(SoupFindAll(input, "verse"))
        /\ \A i \in 1..Len(SoupFindAll(input, "verse")) :
              Len(SylChildren(SoupFindAll(input, "verse")[i])) > 2
              => IF PairHasText(SoupFindAll(input, "verse")[i])
                 THEN FirstPairMerged(SoupFindAll(input, "verse")[i],
                                      SoupFindAll(out1.tree, "verse")[i])
                 ELSE SoupFindAll(out1.tree, "verse")[i] = SoupFindAll(input, "verse")[i]

\* a verse of three syllables came back with two, the second being the old third,
\* next to a verse of three whose first syllable has no text
C25_Witness ==
    /\ pcP # "start" /\ pass = "fix_elisions" /\ out1.ok
    /\ Len(SoupFindAll(input, "verse")) = 2
    /\ Len(SylChildren(SoupFindAll(input, "verse")[1])) = 3
    /\ Len(SylChildren(SoupFindAll(out1.tree, "verse")[1])) = 2
    /\ SylChildren(SoupFindAll(out1.tree, "verse")[1])[2]
          = SylChildren(SoupFindAll(input, "verse")[1])[3]
    /\ Len(SylChildren(SoupFindAll(out1.tree, "verse")[2])) = 3

\* no measure of t is labelled 0
NoIncipit(t) ==
    \A i \in 1..Len(SoupFindAll(t, "measure")) :
        ~(HasAttr(SoupFindAll(t, "measure")[i], "label")
          /\ SoupFindAll(t, "measure")[i].attrs["label"] = s_0)

\* every measure of t has an n that int() accepts
AllNumbered(t) ==
    \A i \in 1..Len(SoupFindAll(t, "measure")) :
        /\ HasAttr(SoupFindAll(t, "measure")[i], "n")
        /\ IsIntLiteral(SoupFindAll(t, "measure")[i].attrs["n"])

\* tree u is tree t with the number of every measure lowered by k and nothing else
\* changed
RECURSIVE ShiftedBy(_, _, _)
ShiftedBy(t, u, k) ==
    /\ u.name = t.name /\ u.ns = t.ns /\ u.text = t.text
    /\ Len(u.kids) = Len(t.kids)
    /\ IF t.name = "measure"
       THEN /\ HasAttr(u, "n") /\ IsIntLiteral(u.attrs["n"])
            /\ ParseInt(u.attrs["n"]) = ParseInt(t.attrs["n"]) - k
            /\ DelAttrs(u, {"n"}) = DelAttrs(t, {"n"})
       ELSE u.attrs = t.attrs
    /\ \A i \in 1..Len(t.kids) : ShiftedBy(t.kids[i], u.kids[i], k)

Positional == {"layer", "tstamp", "tstamp2", "staff"}

\* tree u is tree t with every slur turned into a tie where it stands, without its
\* positional attributes, and every other element as it was
RECURSIVE SlursTied(_, _)
SlursTied(t, u) ==
    /\ u.name = (IF t.name = "slur" THEN "tie" ELSE t.name)
    /\ u.ns = t.ns /\ u.text = t.text
    /\ DOMAIN u.attrs = (IF t.name = "slur" THEN (DOMAIN t.attrs) \ Positional
                         ELSE DOMAIN t.attrs)
    /\ \A a \in DOMAIN u.attrs : u.attrs[a] = t.attrs[a]
    /\ Len(u.kids) = Len(t.kids)
    /\ \A i \in 1..Len(t.kids) : SlursTied(t.kids[i], u.kids[i])

\* C27: slur_to_tie turns every slur into a tie at the same position, keeping its
\* children and its attributes other than layer, tstamp, tstamp2 and staff; no slur
\* remains and the elements that were no slurs are unchanged.
C27_SlursBecomeTies ==
    (pcP # "start" /\ pass = "slur_to_tie") =>
        /\ out1.ok
        /\ CountIn(out1.tree, "slur") = 0
        /\ SlursTied(input, out1.tree)

\* a slur with positional attributes, a startid and a child came back as a tie with
\* the startid and the child, next to a tie that kept its tstamp
C27_Witness ==
    /\ pcP # "start" /\ pass = "slur_to_tie" /\ out1.ok
    /\ CountIn(input, "slur") = 2
    /\ \E i \in 1..Len(input.kids) :
          /\ input.kids[i].name = "slur" /\ Len(input.kids[i].kids) = 1
          /\ Positional \subseteq DOMAIN input.kids[i].attrs
          /\ out1.tree.kids[i].name = "tie"
          /\ DOMAIN out1.tree.kids[i].attrs = {"startid"}
          /\ Len(out1.tree.kids[i].kids) = 1
    /\ \E i \in 1..Len(input.kids) :
          /\ input.kids[i].name = "tie"
          /\ out1.tree.kids[i] = input.kids[i]
          /\ HasAttr(out1.tree.kids[i], "tstamp")

-----------------------------------------------------------------------------
(* More claims about apply_metadata (specification SpecReconcile) *)

TitleStmtPersName == <<"meiHead", "fileDesc", "titleStmt", "composer", "persName">>
WorkPersName == <<"meiHead", "workDesc", "work", "composer", "persName">>

\* the role the composer's persName at path has in tree u when apply_metadata was
\* given tree t: the one it had in t, composer when it had none
RoleKept(t, u, path) ==
    /\ At(u, path) # NoTree
    /\ HasAttr(At(u, path), "role")
    /\ At(u, path).attrs["role"]
          = (IF At(t, path) # NoTree /\ HasAttr(At(t, path), "role")
             THEN At(t, path).attrs["role"] ELSE s_composer)

NamesComposer(R) == Replace(Get(R, "Composer_Name"), s_265, <<>>) # <<>>

\* C28: after a reconcile with a record that names the composer, the composer's
\* persName in titleStmt and in work has the role it had before when it had one,
\* and the role composer when it had none.
C28_ComposerRoleOnlyIfAbsent ==
    /\ (pcR # "start" /\ res1.ok /\ NamesComposer(record)) =>
          /\ RoleKept(htree, res1.tree, TitleStmtPersName)
          /\ RoleKept(htree, res1.tree, WorkPersName)
    /\ (pcR = "twice" /\ res2.ok /\ NamesComposer(record)) =>
          /\ RoleKept(res1.tree, res2.tree, TitleStmtPersName)
          /\ RoleKept(res1.tree, res2.tree, WorkPersName)

\* a composer with a role given by hand in titleStmt and none in work was
\* reconciled: the role given by hand is there, and the work's is composer
C28_Witness ==
    /\ pcR # "start" /\ res1.ok /\ NamesComposer(record)
    /\ At(htree, TitleStmtPersName) # NoTree
    /\ At(htree, TitleStmtPersName).attrs["role"] = s_Ed
    /\ At(htree, WorkPersName) = NoTree
    /\ At(res1.tree, TitleStmtPersName).attrs["role"] = s_Ed
    /\ At(res1.tree, TitleStmtPersName).text = <<"B", "o">>
    /\ At(res1.tree, WorkPersName).attrs["role"] = s_composer

\* the positions in the Editor list of the tokens that are not blank, in order
RECURSIVE EditorPositions(_, _)
EditorPositions(tokens, i) ==
    IF i > Len(tokens) THEN <<>>
    ELSE (IF Strip(tokens[i]) # <<>> THEN <<i>> ELSE <<>>) \o EditorPositions(tokens, i + 1)

\* the editor elements below the fileDesc of t, in document order
FileDescEditors(t) == SelectSeq(At(t, <<"meiHead", "fileDesc">>).kids, IsEditor)

\* editor element e is the one of the token at position p: it has the token's name,
\* and the ORCID at position p of the ORCID list when that is there and not blank,
\* no orcid attribute otherwise
OwnOrcid(e, tokens, orcids, p) ==
    /\ Find(e, "persName") # 0
    /\ e.kids[Find(e, "persName")].text = Strip(tokens[p])
    /\ IF p <= Len(orcids) /\ Strip(orcids[p]) # <<>>
       THEN HasAttr(e, "orcid") /\ e.attrs["orcid"] = Strip(orcids[p])
       ELSE ~HasAttr(e, "orcid")

\* C29: after a reconcile the editor made from the k-th non-blank token of Editor
\* carries the ORCID that stands at that token's position in Editor_ORCID, blank
\* Editor tokens that are skipped shifting nothing; an editor whose ORCID token is
\* blank or missing has no orcid attribute.
C29_EditorCarriesOwnOrcid ==
    (pcR # "start" /\ res1.ok) =>
        LET tokens == Split(Get(record, "Editor"), s_sep)
            orcids == Split(Get(record, "Editor_ORCID"), s_sep)
            pos == EditorPositions(tokens, 1)
        IN  /\ Len(FileDescEditors(res1.tree)) = Len(pos)
            /\ \A k \in 1..Len(pos) :
                  OwnOrcid(FileDescEditors(res1.tree)[k], tokens, orcids, pos[k])

\* the Editor list has a blank token between two names and the ORCID list a blank
\* token between two ORCIDs: the second editor made carries the third ORCID token
C29_Witness ==
    /\ pcR # "start" /\ res1.ok
    /\ EditorPositions(Split(Get(record, "Editor"), s_sep), 1) = <<1, 3>>
    /\ Len(Split(Get(record, "Editor_ORCID"), s_sep)) = 3
    /\ Len(FileDescEditors(res1.tree)) = 2
    /\ FileDescEditors(res1.tree)[1].attrs["orcid"] = <<"1">>
    /\ FileDescEditors(res1.tree)[2].attrs["orcid"] = <<"2">>

-----------------------------------------------------------------------------
(* Claims about what process_files writes (specification Spec) *)

\* C30: a document's output is written only after every requested registered pass
\* has completed, and is their fold over the loaded tree; when a pass raises, no
\* further pass runs for the document, nothing is saved for it and its status is
\* error; the status success is there only with the output saved.
C30_SavedOnlyWhenAllPassesCompleted ==
    /\ \A i \in DOMAIN saved :
          /\ files[i].loadable
          /\ FoldPasses(files[i].tree, Registered(modules), flags) = Ok(saved[i])
          /\ i \in DOMAIN results /\ results[i] = "success"
    /\ \A i \in 1..Len(files) :
          (i < idx /\ files[i].loadable
           /\ ~FoldPasses(files[i].tree, Registered(modules), flags).ok) =>
              /\ i \in DOMAIN results /\ results[i] = "error"
              /\ i \notin DOMAIN saved
    /\ pcD = "modules" =>
          /\ idx \notin DOMAIN results /\ idx \notin DOMAIN saved
          /\ FoldPasses(loaded, Registered(SubSeq(modules, 1, modIdx - 1)), flags).ok
    /\ \A i \in DOMAIN results : results[i] = "success" => i \in DOMAIN saved

\* the second of two passes raised for the first document, after the first pass
\* had changed its tree: the document has status error and nothing saved, and the
\* second document was saved with status success
C30_Witness ==
    /\ pcD = "done" /\ Len(files) = 2 /\ Len(modules) = 2
    /\ files[1].loadable /\ files[1].writable
    /\ modules[1] \in Registry /\ modules[2] \in Registry
    /\ CallModule(modules[1], files[1].tree, flags, NoDraws).ok
    /\ CallModule(modules[1], files[1].tree, flags, NoDraws).tree # files[1].tree
    /\ ~FoldPasses(files[1].tree, modules, flags).ok
    /\ results[1] = "error" /\ 1 \notin DOMAIN saved
    /\ results[2] = "success" /\ 2 \in DOMAIN saved

====
